---- MODULE Spec2Model ----
(***************************************************************************)
(* DCA scheduler, order execution and position ledger of the Convex        *)
(* backend (actions/dca, actions/trading, mutations/trading).              *)
(*                                                                         *)
(* Convex runs every query and mutation as one serializable transaction,   *)
(* while an action is an ordinary async function whose runQuery /          *)
(* runMutation calls are separate transactions.  Each action of this       *)
(* module is therefore one transaction (or one external call) of a         *)
(* handler, and the position of every running handler is part of the       *)
(* state.                                                                  *)
(*                                                                         *)
(* Numbers that the code keeps as decimal strings and computes with        *)
(* parseFloat are modelled as exact rationals <<numerator, denominator>>;  *)
(* the rounding of IEEE-754 doubles is not modelled.  Times are in         *)
(* milliseconds, as Date.now() gives them.                                 *)
(***************************************************************************)
EXTENDS Integers, Sequences, FiniteSets, TLC

(***************************************************************************)
(* Bounds of the model.                                                    *)
(***************************************************************************)
MaxPolls == 2
MaxOrders == 2
MaxCalls == 2
MaxFaults == 2

(***************************************************************************)
(* Program constants.                                                      *)
(***************************************************************************)
PollPeriod == 5 * 60 * 1000
DayMs == 24 * 60 * 60 * 1000
DefaultDipThreshold == -5

Absent == -1000000000

StrategyIds == {"s1", "s2"}
TickIds == {"t1", "t2"}
UserIds == {"u1"}
Tokens == {"SOL", "BONK"}
NoStrategy == "none"

(***************************************************************************)
(* Exact rational arithmetic.  n/0 stands for what the double arithmetic   *)
(* of the code gives on a division by zero: NaN (0/0) or an infinity.      *)
(***************************************************************************)
Abs(x) == IF x < 0 THEN -x ELSE x

Sign(x) == IF x < 0 THEN -1 ELSE IF x > 0 THEN 1 ELSE 0

RECURSIVE GCD(_, _)
GCD(a, b) == IF b = 0 THEN a ELSE GCD(b, a % b)

Norm(n, d) ==
    IF d = 0 THEN <<Sign(n), 0>>
    ELSE LET g == GCD(Abs(n), Abs(d))
             s == IF d < 0 THEN -1 ELSE 1
         IN  <<(s * n) \div g, (s * d) \div g>>

R(n) == <<n, 1>>
RAdd(a, b) == Norm(a[1] * b[2] + b[1] * a[2], a[2] * b[2])
RSub(a, b) == Norm(a[1] * b[2] - b[1] * a[2], a[2] * b[2])
RMul(a, b) == Norm(a[1] * b[1], a[2] * b[2])
RDiv(a, b) == Norm(a[1] * b[2], a[2] * b[1])
RLess(a, b) == a[1] * b[2] < b[1] * a[2]
RGeq(a, b) == a[1] * b[2] >= b[1] * a[2]

\* JavaScript truthiness of an optional number: undefined and 0 are falsy.
Truthy(x) == x # Absent /\ x # 0

\* JavaScript truthiness of an optional numeric string: only undefined (and
\* the empty string) is falsy, "0" is truthy.
TruthyStr(x) == x # Absent

(***************************************************************************)
(* State.                                                                  *)
(*   clock       Date.now()                                                *)
(*   users       table users (the fields placeTrade and recordTrade use)   *)
(*   strategies  table dcaStrategies                                       *)
(*   orders      table orders, in insertion order; an order id is its      *)
(*               index                                                     *)
(*   execs       the executeTrade action scheduled for each order          *)
(*   positions   table positions, in insertion order                       *)
(*   trades      table trades                                              *)
(*   ticks       the running invocations of executeScheduledStrategies     *)
(*   errorLog    what logError has stored                                  *)
(*   lastPoll    the time of the latest scheduler tick                     *)
(*   book        per (userId, tokenMint): the fills applied so far, summed  *)
(*   lastOp      the latest call of updatePosition that committed          *)
(*   calls       the number of calls of updatePosition made by clients     *)
(*   faults      the number of calls that failed for an outside reason     *)
(*   priceData   the candles that getPriceHistory returned (its data)       *)
(*   indicators  what calculateAllIndicators made of them                   *)
(***************************************************************************)
VARIABLES clock, users, strategies, orders, execs, positions, trades, ticks,
          errorLog, lastPoll, book, lastOp, calls, faults,
          priceData, indicators

vars == <<clock, users, strategies, orders, execs, positions, trades, ticks,
          errorLog, lastPoll, book, lastOp, calls, faults,
          priceData, indicators>>

\* What JavaScript's null is in the model, and the state of the technical
\* analysis before any price history has been read.
Null == <<>>

NoPriceData ==
    /\ priceData = <<>>
    /\ indicators = Null

\* A call fails for a reason outside the modelled code (the gateway, the
\* platform, a validator): at most MaxFaults times in a behaviour.
Fault ==
    /\ faults < MaxFaults
    /\ faults' = faults + 1

(***************************************************************************)
(* mutations/trading: updatePosition.                                      *)
(***************************************************************************)
RECURSIVE FirstMatch(_, _, _, _)
FirstMatch(pos, userId, tokenMint, i) ==
    IF i > Len(pos) THEN 0
    ELSE IF pos[i].userId = userId /\ pos[i].tokenMint = tokenMint THEN i
    ELSE FirstMatch(pos, userId, tokenMint, i + 1)

\* ctx.db.query("positions").withIndex("by_user_token", ...).first():
\* the index of the row, 0 when there is none.
FindPosition(pos, userId, tokenMint) == FirstMatch(pos, userId, tokenMint, 1)

RemoveAt(seq, i) == SubSeq(seq, 1, i - 1) \o SubSeq(seq, i + 1, Len(seq))

\* A variant of PatchedPosition that takes the plain mean of the old average
\* price and the price of the fill, whatever the two amounts are.
PatchedPositionPlainMean(row, a) ==
    [row EXCEPT !.amount = IF a.action = "add" THEN RAdd(row.amount, a.amount)
                           ELSE row.amount,
                !.averagePrice = IF a.action = "add"
                                 THEN RDiv(RAdd(row.averagePrice, a.price), R(2))
                                 ELSE row.averagePrice,
                !.currentPrice = a.price]

\* The row of an existing position after an "add" or an "update".
PatchedPosition(row, a) ==
    LET currentAmount == row.amount
        currentAvgPrice == row.averagePrice
        newAmount == a.amount
        newPrice == a.price
        updatedAmount == IF a.action = "add" THEN RAdd(currentAmount, newAmount)
                         ELSE currentAmount
        updatedAvgPrice ==
            IF a.action = "add"
            THEN RDiv(RAdd(RMul(currentAmount, currentAvgPrice),
                           RMul(newAmount, newPrice)), updatedAmount)
            ELSE currentAvgPrice
        marketValue == RMul(updatedAmount, newPrice)
        costBasis == RMul(updatedAmount, updatedAvgPrice)
        pnlAmount == RSub(marketValue, costBasis)
    IN  [row EXCEPT !.amount = updatedAmount,
                    !.averagePrice = updatedAvgPrice,
                    !.currentPrice = a.price,
                    !.marketValue = marketValue,
                    !.costBasis = costBasis,
                    !.pnl = [amount |-> pnlAmount,
                             percentage |-> RMul(RDiv(pnlAmount, costBasis), R(100)),
                             isProfit |-> RLess(R(0), pnlAmount)]]

\* The row inserted when there is no position yet.
CreatedPosition(a) ==
    LET marketValue == RMul(a.amount, a.price)
    IN  [userId |-> a.userId,
         tokenMint |-> a.tokenMint,
         amount |-> a.amount,
         averagePrice |-> a.price,
         currentPrice |-> a.price,
         marketValue |-> marketValue,
         costBasis |-> marketValue,
         pnl |-> [amount |-> R(0), percentage |-> R(0), isProfit |-> FALSE]]

\* A variant of ReducedPosition that also moves the average price to the
\* price of the sale.
ReducedPositionRepriced(row, a) ==
    [row EXCEPT !.amount = RSub(row.amount, a.amount),
                !.averagePrice = a.price,
                !.currentPrice = a.price]

\* The row of an existing position after a partial close.
ReducedPosition(row, a) ==
    LET remainingAmount == RSub(row.amount, a.amount)
        marketValue == RMul(remainingAmount, a.price)
        costBasis == RMul(remainingAmount, row.averagePrice)
        pnlAmount == RSub(marketValue, costBasis)
    IN  [row EXCEPT !.amount = remainingAmount,
                    !.currentPrice = a.price,
                    !.marketValue = marketValue,
                    !.costBasis = costBasis,
                    !.pnl = [amount |-> pnlAmount,
                             percentage |-> RMul(RDiv(pnlAmount, costBasis), R(100)),
                             isProfit |-> RLess(R(0), pnlAmount)]]

\* A variant of UpdatePosition that does not see the row another call has
\* written: an "add" or an "update" always inserts a row.
UpdatePositionInserting(pos, a) ==
    IF a.action = "add" \/ a.action = "update"
    THEN [ok |-> TRUE, action |-> "created",
          positions |-> Append(pos, CreatedPosition(a))]
    ELSE IF a.action = "remove" /\ FindPosition(pos, a.userId, a.tokenMint) # 0
    THEN [ok |-> TRUE, action |-> "closed",
          positions |-> RemoveAt(pos, FindPosition(pos, a.userId, a.tokenMint))]
    ELSE [ok |-> FALSE, action |-> "throw", positions |-> pos]

\* The handler of updatePosition on table pos with arguments a: the table
\* it commits and what it returns, or ok = FALSE when it throws
\* "Invalid position update" (the transaction then commits nothing).
UpdatePosition(pos, a) ==
    LET i == FindPosition(pos, a.userId, a.tokenMint)
    IN  IF a.action = "add" \/ a.action = "update"
        THEN IF i # 0
             THEN [ok |-> TRUE, action |-> "updated",
                   positions |-> [pos EXCEPT ![i] = PatchedPosition(pos[i], a)]]
             ELSE [ok |-> TRUE, action |-> "created",
                   positions |-> Append(pos, CreatedPosition(a))]
        ELSE IF a.action = "remove" /\ i # 0
        THEN IF RGeq(a.amount, pos[i].amount)
             THEN [ok |-> TRUE, action |-> "closed",
                   positions |-> RemoveAt(pos, i)]
             ELSE [ok |-> TRUE, action |-> "reduced",
                   positions |-> [pos EXCEPT ![i] = ReducedPosition(pos[i], a)]]
        ELSE [ok |-> FALSE, action |-> "throw", positions |-> pos]

\* The latest committed call of updatePosition: its arguments, what it
\* returned, the row it found and the order it was made for (0 for none).
NoOp == [args |-> <<>>, action |-> "none", before |-> <<>>, orderId |-> 0]

LedgerOp(pos, a, res, o) ==
    [args |-> <<a>>, action |-> res.action,
     before |-> IF FindPosition(pos, a.userId, a.tokenMint) = 0 THEN <<>>
                ELSE <<pos[FindPosition(pos, a.userId, a.tokenMint)]>>,
     orderId |-> o]

(***************************************************************************)
(* The book: what a ledger that applies the committed fills one after the  *)
(* other holds for a key.  qty and cost are the quantity and the cost      *)
(* basis; sumQ and sumQP are the sums of q and of q*p over the buy fills   *)
(* since the position was opened, and buysOnly says that nothing but buy   *)
(* fills was applied since then.                                           *)
(***************************************************************************)
NoEntry == [qty |-> R(0), cost |-> R(0), sumQ |-> R(0), sumQP |-> R(0), buysOnly |-> TRUE]

BookedEntry(e, a) ==
    CASE a.action = "add" ->
            [e EXCEPT !.qty = RAdd(@, a.amount),
                      !.cost = RAdd(@, RMul(a.amount, a.price)),
                      !.sumQ = RAdd(@, a.amount),
                      !.sumQP = RAdd(@, RMul(a.amount, a.price))]
      [] a.action = "update" ->
            IF e.qty = R(0)
            THEN [e EXCEPT !.qty = a.amount, !.cost = RMul(a.amount, a.price),
                           !.buysOnly = FALSE]
            ELSE [e EXCEPT !.buysOnly = FALSE]
      [] a.action = "remove" ->
            IF RGeq(a.amount, e.qty) THEN NoEntry
            ELSE [e EXCEPT !.qty = RSub(@, a.amount),
                           !.cost = RMul(@, RDiv(RSub(e.qty, a.amount), e.qty)),
                           !.buysOnly = FALSE]

Booked(b, a) ==
    [b EXCEPT ![<<a.userId, a.tokenMint>>] = BookedEntry(@, a)]

(***************************************************************************)
(* mutations/trading: placeTrade.                                          *)
(***************************************************************************)
WalletOwner(walletId) == IF walletId = "w1" THEN "u1" ELSE "nobody"

\* new Date().setHours(0, 0, 0, 0), taking the server's day to be the UTC day.
TodayStart(now) == (now \div DayMs) * DayMs

TodayOrders(userId, now) ==
    {o \in 1..Len(orders) : orders[o].userId = userId
                            /\ orders[o].createdAt >= TodayStart(now)}

OpenPositions(userId) ==
    {i \in 1..Len(positions) : positions[i].userId = userId}

\* The error placeTrade throws for these arguments in the current state,
\* "ok" when it throws none.
PlaceTradeError(a) ==
    IF a.userId \notin DOMAIN users \/ ~users[a.userId].isActive
    THEN "User not found or inactive"
    ELSE IF WalletOwner(a.walletId) # a.userId
    THEN "Invalid wallet"
    ELSE IF Cardinality(TodayOrders(a.userId, clock)) >= users[a.userId].limits.dailyTrades
    THEN "Daily trade limit reached"
    ELSE IF a.side = "buy"
            /\ Cardinality(OpenPositions(a.userId)) >= users[a.userId].limits.maxOpenPositions
    THEN "Maximum open positions reached"
    ELSE "ok"

NewOrder(a) ==
    [userId |-> a.userId,
     walletId |-> a.walletId,
     side |-> a.side,
     status |-> "pending",
     tokenIn |-> a.tokenIn,
     tokenOut |-> [mint |-> a.tokenOut.mint, amount |-> R(0)],
     execution |-> <<>>,
     error |-> "none",
     createdAt |-> clock,
     strategyId |-> a.strategyId]

\* The committed transaction of placeTrade: the order is inserted, the user
\* is patched and executeTrade is scheduled with runAfter(0).  The id of the
\* new order is Len(orders').  strategyId is no field of the code's order: it
\* records on whose behalf the caller placed it.
PlaceTrade(a) ==
    /\ PlaceTradeError(a) = "ok"
    /\ Len(orders) < MaxOrders
    /\ orders' = Append(orders, NewOrder(a))
    /\ users' = [users EXCEPT ![a.userId].lastActive = clock]
    /\ execs' = Append(execs, [pc |-> "scheduled", outAmount |-> 0])

(***************************************************************************)
(* mutations/trading: updateOrderStatus, handleCompletedOrder, recordTrade *)
(* and actions/trading: executeTrade.                                      *)
(***************************************************************************)
\* The arguments handleCompletedOrder gives updatePosition.
CompletedOrderArgs(order, execution) ==
    IF order.side = "buy"
    THEN [userId |-> order.userId, tokenMint |-> order.tokenOut.mint,
          amount |-> execution.actualOut, price |-> execution.actualPrice,
          action |-> "add"]
    ELSE [userId |-> order.userId, tokenMint |-> order.tokenIn.mint,
          amount |-> R(order.tokenIn.amount), price |-> execution.actualPrice,
          action |-> "remove"]

\* getJupiterQuote: price = parseFloat(outAmount) / parseFloat(amount).
QuotePrice(outAmount, amount) == RDiv(R(outAmount), R(amount))

OutAmounts == {4}

\* executeTrade, lines 358-370: getOrder, then updateOrderStatus("executing").
\* The order read by getOrder is used below only for fields that no
\* transaction changes, so the two transactions are one step here.
ExecBegin(o) ==
    /\ execs[o].pc = "scheduled"
    /\ orders' = [orders EXCEPT ![o].status = "executing"]
    /\ execs' = [execs EXCEPT ![o].pc = "executing"]
    /\ UNCHANGED <<priceData, indicators, clock, users, strategies, positions, trades, ticks,
                   errorLog, lastPoll, book, lastOp, calls, faults>>

\* executeTrade, lines 372-403.  The quote and the swap transaction come
\* from the external gateway, which fails or answers with an out amount;
\* these calls touch no table, so they are one step with the transaction
\* that follows them: updateOrderStatus("completed", execution), which
\* patches the order and, through handleCompletedOrder, updates the
\* position.  When updatePosition throws, that transaction commits nothing
\* and executeTrade goes to its catch block.
ExecSwap(o) ==
    /\ execs[o].pc = "executing"
    /\ \/ /\ \E out \in OutAmounts :
                LET order == orders[o]
                    execution == [actualPrice |-> QuotePrice(out, order.tokenIn.amount),
                                  actualOut |-> R(out)]
                    a == CompletedOrderArgs(order, execution)
                    res == UpdatePosition(positions, a)
                IN  IF res.ok
                    THEN /\ orders' = [orders EXCEPT
                                ![o].status = "completed",
                                ![o].execution = <<[actualPrice |-> execution.actualPrice,
                                                    actualOut |-> execution.actualOut,
                                                    attempts |-> 1]>>,
                                ![o].tokenOut.amount = execution.actualOut]
                         /\ positions' = res.positions
                         /\ book' = Booked(book, a)
                         /\ lastOp' = LedgerOp(positions, a, res, o)
                         /\ execs' = [execs EXCEPT ![o] = [pc |-> "completed",
                                                          outAmount |-> out]]
                    ELSE /\ execs' = [execs EXCEPT ![o].pc = "failing"]
                         /\ UNCHANGED <<orders, positions, book, lastOp>>
          /\ UNCHANGED faults
       \/ /\ Fault
          /\ execs' = [execs EXCEPT ![o].pc = "failing"]
          /\ UNCHANGED <<orders, positions, book, lastOp>>
    /\ UNCHANGED <<priceData, indicators, clock, users, strategies, trades, ticks, errorLog, lastPoll, calls>>

\* The trade row recordTrade inserts for executeTrade's call (lines 405-437),
\* which passes no pnl.
TradeOf(o) ==
    LET order == orders[o]
        price == QuotePrice(execs[o].outAmount, order.tokenIn.amount)
    IN  [orderId |-> o,
         userId |-> order.userId,
         side |-> order.side,
         tokenIn |-> [mint |-> order.tokenIn.mint,
                      amount |-> R(order.tokenIn.amount),
                      price |-> price,
                      value |-> RMul(R(order.tokenIn.amount), price)],
         tokenOut |-> [mint |-> order.tokenOut.mint,
                       amount |-> R(execs[o].outAmount),
                       price |-> price],
         pnl |-> <<>>]

\* recordTrade: the trade is inserted and the user's stats are advanced;
\* totalPnL and successRate change only when the call carries a pnl.
RecordTrade(trade) ==
    /\ trades' = Append(trades, trade)
    /\ users' = [users EXCEPT
           ![trade.userId].stats.totalTrades = @ + 1,
           ![trade.userId].stats.totalVolume = RAdd(@, trade.tokenIn.value),
           ![trade.userId].stats.totalPnL =
               IF trade.pnl = <<>> THEN @ ELSE RAdd(@, trade.pnl[1].realized)]

\* executeTrade, lines 405-443: recordTrade commits, or it fails and
\* executeTrade goes to its catch block.
ExecRecordTrade(o) ==
    /\ execs[o].pc = "completed"
    /\ \/ /\ RecordTrade(TradeOf(o))
          /\ execs' = [execs EXCEPT ![o].pc = "done"]
          /\ UNCHANGED faults
       \/ /\ Fault
          /\ execs' = [execs EXCEPT ![o].pc = "failing"]
          /\ UNCHANGED <<trades, users>>
    /\ UNCHANGED <<priceData, indicators, clock, strategies, orders, positions, ticks, errorLog,
                   lastPoll, book, lastOp, calls>>

\* executeTrade, lines 444-457: updateOrderStatus("failed", error); without
\* an execution argument the positions are not touched.
ExecFail(o) ==
    /\ execs[o].pc = "failing"
    /\ orders' = [orders EXCEPT ![o].status = "failed",
                                ![o].error = "EXECUTION_FAILED"]
    /\ execs' = [execs EXCEPT ![o].pc = "done"]
    /\ UNCHANGED <<priceData, indicators, clock, users, strategies, positions, trades, ticks,
                   errorLog, lastPoll, book, lastOp, calls, faults>>

ExecuteTrade ==
    \E o \in 1..Len(orders) :
        \/ ExecBegin(o)
        \/ ExecSwap(o)
        \/ ExecRecordTrade(o)
        \/ ExecFail(o)

(***************************************************************************)
(* actions/dca: the helpers of executeScheduledStrategies.                 *)
(***************************************************************************)
NoConditions ==
    [present |-> FALSE, minPrice |-> Absent, maxPrice |-> Absent,
     onlyBuyDips |-> FALSE, dipThreshold |-> Absent]

\* A variant of checkStrategyConditions for which a price equal to minPrice
\* or maxPrice is out of bounds.
CheckStrategyConditionsExclusive(strategy, currentPrice, priceChange, dateNow) ==
    LET conditions == strategy.config.conditions
        limits == strategy.config.limits
        dipThreshold == IF Truthy(conditions.dipThreshold)
                        THEN conditions.dipThreshold ELSE DefaultDipThreshold
    IN  IF ~conditions.present THEN TRUE
        ELSE IF TruthyStr(conditions.minPrice) /\ currentPrice <= conditions.minPrice
        THEN FALSE
        ELSE IF TruthyStr(conditions.maxPrice) /\ currentPrice >= conditions.maxPrice
        THEN FALSE
        ELSE IF conditions.onlyBuyDips /\ priceChange > dipThreshold
        THEN FALSE
        ELSE IF Truthy(limits.maxExecutions)
                /\ strategy.stats.totalExecutions >= limits.maxExecutions
        THEN FALSE
        ELSE IF TruthyStr(limits.maxInvestment)
                /\ strategy.stats.totalInvested >= limits.maxInvestment
        THEN FALSE
        ELSE IF Truthy(limits.endDate) /\ dateNow > limits.endDate
        THEN FALSE
        ELSE TRUE

\* checkStrategyConditions for the strategy document a tick read, the
\* latest price and 24h change the price queries return, and Date.now().
CheckStrategyConditions(strategy, currentPrice, priceChange, dateNow) ==
    LET conditions == strategy.config.conditions
        limits == strategy.config.limits
        dipThreshold == IF Truthy(conditions.dipThreshold)
                        THEN conditions.dipThreshold ELSE DefaultDipThreshold
    IN  IF ~conditions.present THEN TRUE
        ELSE IF TruthyStr(conditions.minPrice) /\ currentPrice < conditions.minPrice
        THEN FALSE
        ELSE IF TruthyStr(conditions.maxPrice) /\ currentPrice > conditions.maxPrice
        THEN FALSE
        ELSE IF conditions.onlyBuyDips /\ priceChange > dipThreshold
        THEN FALSE
        ELSE IF Truthy(limits.maxExecutions)
                /\ strategy.stats.totalExecutions >= limits.maxExecutions
        THEN FALSE
        ELSE IF TruthyStr(limits.maxInvestment)
                /\ strategy.stats.totalInvested >= limits.maxInvestment
        THEN FALSE
        ELSE IF Truthy(limits.endDate) /\ dateNow > limits.endDate
        THEN FALSE
        ELSE TRUE

\* A variant of parseInterval that takes every unit for minutes.
ParseIntervalInMinutes(interval) == interval.n * 60 * 1000

\* parseInterval of the string whose last character is unit and whose
\* leading part parses to the integer n.
ParseInterval(interval) ==
    CASE interval.unit = "m" -> interval.n * 60 * 1000
      [] interval.unit = "h" -> interval.n * 60 * 60 * 1000
      [] interval.unit = "d" -> interval.n * 24 * 60 * 60 * 1000
      [] interval.unit = "w" -> interval.n * 7 * 24 * 60 * 60 * 1000
      [] OTHER -> 60 * 60 * 1000

GetNextCronExecution(cronExpression, currentTime) == currentTime + (60 * 60 * 1000)

CalculateDynamicExecution(config, currentTime) == currentTime + (2 * 60 * 60 * 1000)

CalculateNextExecution(frequency, currentTime) ==
    CASE frequency.type = "interval" -> currentTime + ParseInterval(frequency.value)
      [] frequency.type = "cron" -> GetNextCronExecution(frequency.value, currentTime)
      [] frequency.type = "dynamic" -> CalculateDynamicExecution(frequency.value, currentTime)
      [] OTHER -> currentTime + (60 * 60 * 1000)

(***************************************************************************)
(* queries/dca and mutations/dca, which executeScheduledStrategies calls.  *)
(***************************************************************************)
\* A strategy is Active when it is neither completed (isActive = FALSE) nor
\* paused.
ActiveDoc(strategy) == strategy.isActive /\ ~strategy.isPaused

DueDoc(strategy, timestamp) ==
    /\ ActiveDoc(strategy)
    /\ strategy.stats.nextExecution # Absent
    /\ strategy.stats.nextExecution <= timestamp

IsActive(s) == ActiveDoc(strategies[s])

IsDue(s, timestamp) == DueDoc(strategies[s], timestamp)

\* The order in which the strategies were created.
CreationRank(s) == IF s = "s1" THEN 1 ELSE 2

RECURSIVE SeqOfSet(_)
SeqOfSet(S) ==
    IF S = {} THEN <<>>
    ELSE LET s == CHOOSE x \in S :
                    \A y \in S :
                        \/ strategies[x].stats.nextExecution < strategies[y].stats.nextExecution
                        \/ /\ strategies[x].stats.nextExecution = strategies[y].stats.nextExecution
                           /\ CreationRank(x) <= CreationRank(y)
         IN  <<[id |-> s, doc |-> strategies[s]]>> \o SeqOfSet(S \ {s})

\* getDueStrategies: the Active strategies with nextExecution <= timestamp,
\* in the order of the index by_next_execution, as documents.
GetDueStrategies(timestamp) == SeqOfSet({s \in StrategyIds : IsDue(s, timestamp)})

LimitReached(strategy) ==
    \/ /\ Truthy(strategy.config.limits.maxExecutions)
       /\ strategy.stats.totalExecutions >= strategy.config.limits.maxExecutions
    \/ /\ TruthyStr(strategy.config.limits.maxInvestment)
       /\ strategy.stats.totalInvested >= strategy.config.limits.maxInvestment

\* recordExecution: appends the execution record and advances the runtime
\* statistics; a strategy that has now reached a limit becomes Completed.
\* A second record with the key (strategyId, timestamp) is rejected.
\* scheduledTime is no argument of the code: it is the nextExecution of the
\* document the calling tick found due, kept to say which slot a record is for.
RecordExecutionOk(s, timestamp) ==
    \A i \in 1..Len(strategies[s].executions) :
        strategies[s].executions[i].timestamp # timestamp

RecordExecution(s, orderId, amount, timestamp, scheduledTime) ==
    LET recorded == [strategies[s] EXCEPT
                        !.executions = Append(@, [orderId |-> orderId,
                                                  timestamp |-> timestamp,
                                                  amountIn |-> amount,
                                                  scheduledTime |-> scheduledTime]),
                        !.stats.totalExecutions = @ + 1,
                        !.stats.totalInvested = @ + amount,
                        !.stats.lastExecution = timestamp]
    IN  strategies' = [strategies EXCEPT ![s] =
                          IF LimitReached(recorded)
                          THEN [recorded EXCEPT !.isActive = FALSE]
                          ELSE recorded]

UpdateNextExecution(s, nextExecution) ==
    strategies' = [strategies EXCEPT ![s].stats.nextExecution = nextExecution]

LogError(s, timestamp) ==
    errorLog' = Append(errorLog, [strategyId |-> s, timestamp |-> timestamp])

(***************************************************************************)
(* actions/dca: executeScheduledStrategies, one step per transaction.      *)
(***************************************************************************)
IdleTick ==
    [pc |-> "idle", now |-> 0, due |-> <<>>, idx |-> 0, orderId |-> 0,
     results |-> [total |-> 0, executed |-> 0, failed |-> 0, skipped |-> 0]]

\* The strategy a tick is processing: its id and the document the tick read.
Current(t) == ticks[t].due[ticks[t].idx]

\* The tick after it has finished with its current strategy: the loop goes
\* to the next strategy, or the handler returns its results.
Advanced(tk) ==
    IF tk.idx = Len(tk.due) THEN [IdleTick EXCEPT !.results = tk.results]
    ELSE [tk EXCEPT !.idx = @ + 1, !.pc = "check", !.orderId = 0]

Prices == {5, 20}
Changes == {-8, -3}

\* Lines 11-23: the tick reads the time and the due strategies.  The cron
\* job starts one tick per polling time; an earlier tick may still run.  A
\* new invocation takes the first free tick id.
TickRank(t) == IF t = "t1" THEN 1 ELSE 2

TickStart(t) ==
    /\ ticks[t].pc = "idle"
    /\ \A u \in TickIds : TickRank(u) < TickRank(t) => ticks[u].pc # "idle"
    /\ lastPoll < clock
    /\ lastPoll' = clock
    /\ LET due == GetDueStrategies(clock)
       IN  ticks' = [ticks EXCEPT ![t] =
                        IF due = <<>> THEN IdleTick
                        ELSE [IdleTick EXCEPT !.pc = "check", !.now = clock,
                                              !.due = due, !.idx = 1,
                                              !.results.total = Len(due)]]
    /\ UNCHANGED <<priceData, indicators, clock, users, strategies, orders, execs, positions, trades,
                   errorLog, book, lastOp, calls, faults>>

\* TickCheck with a skip that also schedules the next execution.
TickCheckAdvancing(t) ==
    /\ ticks[t].pc = "check"
    /\ \/ /\ \E p \in Prices, c \in Changes :
                CheckStrategyConditions(Current(t).doc, p, c, clock)
          /\ ticks' = [ticks EXCEPT ![t].pc = "place"]
          /\ UNCHANGED strategies
       \/ /\ \E p \in Prices, c \in Changes :
                ~CheckStrategyConditions(Current(t).doc, p, c, clock)
          /\ ticks' = [ticks EXCEPT ![t] =
                          Advanced([ticks[t] EXCEPT !.results.skipped = @ + 1])]
          /\ UpdateNextExecution(Current(t).id,
                CalculateNextExecution(Current(t).doc.config.frequency, ticks[t].now))
    /\ UNCHANGED <<priceData, indicators, clock, users, orders, execs, positions, trades,
                   errorLog, lastPoll, book, lastOp, calls, faults>>

\* Lines 28-35: checkStrategyConditions, then the skip.
TickCheck(t) ==
    /\ ticks[t].pc = "check"
    /\ \/ /\ \E p \in Prices, c \in Changes :
                CheckStrategyConditions(Current(t).doc, p, c, clock)
          /\ ticks' = [ticks EXCEPT ![t].pc = "place"]
       \/ /\ \E p \in Prices, c \in Changes :
                ~CheckStrategyConditions(Current(t).doc, p, c, clock)
          /\ ticks' = [ticks EXCEPT ![t] =
                          Advanced([ticks[t] EXCEPT !.results.skipped = @ + 1])]
    /\ UNCHANGED <<priceData, indicators, clock, users, strategies, orders, execs, positions, trades,
                   errorLog, lastPoll, book, lastOp, calls, faults>>

\* The arguments of the placeTrade call of lines 38-55.
DcaOrderArgs(strategy, id) ==
    [userId |-> strategy.userId,
     walletId |-> strategy.walletId,
     side |-> "buy",
     tokenIn |-> [mint |-> strategy.config.tokenIn.mint,
                  amount |-> strategy.config.amount],
     tokenOut |-> [mint |-> strategy.config.tokenOut.mint],
     strategyId |-> id]

\* Lines 37-55: placeTrade commits, or it throws and the tick goes to its
\* catch block.
TickPlace(t) ==
    /\ ticks[t].pc = "place"
    /\ LET a == DcaOrderArgs(Current(t).doc, Current(t).id)
       IN  \/ /\ PlaceTrade(a)
              /\ ticks' = [ticks EXCEPT ![t].pc = "record",
                                        ![t].orderId = Len(orders) + 1]
           \/ /\ PlaceTradeError(a) # "ok"
              /\ ticks' = [ticks EXCEPT ![t].pc = "logError",
                                        ![t].results.failed = @ + 1]
              /\ UNCHANGED <<users, orders, execs>>
    /\ UNCHANGED <<priceData, indicators, clock, strategies, positions, trades, errorLog, lastPoll,
                   book, lastOp, calls, faults>>

\* TickRecord with a record that carries the strategy's total invested so
\* far where the amount of this execution belongs.
TickRecordRunningTotal(t) ==
    /\ ticks[t].pc = "record"
    /\ RecordExecutionOk(Current(t).id, ticks[t].now)
    /\ RecordExecution(Current(t).id, ticks[t].orderId,
                       Current(t).doc.stats.totalInvested, ticks[t].now,
                       Current(t).doc.stats.nextExecution)
    /\ ticks' = [ticks EXCEPT ![t].pc = "next"]
    /\ UNCHANGED <<priceData, indicators, clock, users, orders, execs, positions, trades, errorLog,
                   lastPoll, book, lastOp, calls, faults>>

\* Lines 57-63: recordExecution commits, or it throws.
TickRecord(t) ==
    /\ ticks[t].pc = "record"
    /\ \/ /\ RecordExecutionOk(Current(t).id, ticks[t].now)
          /\ RecordExecution(Current(t).id, ticks[t].orderId,
                             Current(t).doc.config.amount, ticks[t].now,
                             Current(t).doc.stats.nextExecution)
          /\ ticks' = [ticks EXCEPT ![t].pc = "next"]
          /\ UNCHANGED faults
       \/ /\ Fault \/ (~RecordExecutionOk(Current(t).id, ticks[t].now) /\ UNCHANGED faults)
          /\ ticks' = [ticks EXCEPT ![t].pc = "logError",
                                    ![t].results.failed = @ + 1]
          /\ UNCHANGED strategies
    /\ UNCHANGED <<priceData, indicators, clock, users, orders, execs, positions, trades, errorLog,
                   lastPoll, book, lastOp, calls>>

\* Lines 65-73: updateNextExecution commits, or it throws.
TickNext(t) ==
    /\ ticks[t].pc = "next"
    /\ \/ /\ UpdateNextExecution(Current(t).id,
                CalculateNextExecution(Current(t).doc.config.frequency, ticks[t].now))
          /\ ticks' = [ticks EXCEPT ![t] =
                          Advanced([ticks[t] EXCEPT !.results.executed = @ + 1])]
          /\ UNCHANGED faults
       \/ /\ Fault
          /\ ticks' = [ticks EXCEPT ![t].pc = "logError",
                                    ![t].results.failed = @ + 1]
          /\ UNCHANGED strategies
    /\ UNCHANGED <<priceData, indicators, clock, users, orders, execs, positions, trades, errorLog,
                   lastPoll, book, lastOp, calls>>

\* Lines 74-84: the catch block; when logError throws too, the handler
\* ends with that error.
TickLogError(t) ==
    /\ ticks[t].pc = "logError"
    /\ \/ /\ LogError(Current(t).id, ticks[t].now)
          /\ ticks' = [ticks EXCEPT ![t] = Advanced(ticks[t])]
          /\ UNCHANGED faults
       \/ /\ Fault
          /\ ticks' = [ticks EXCEPT ![t] = IdleTick]
          /\ UNCHANGED errorLog
    /\ UNCHANGED <<priceData, indicators, clock, users, strategies, orders, execs, positions, trades,
                   lastPoll, book, lastOp, calls>>

ExecuteScheduledStrategies ==
    \E t \in TickIds :
        \/ TickStart(t)
        \/ TickCheck(t)
        \/ TickPlace(t)
        \/ TickRecord(t)
        \/ TickNext(t)
        \/ TickLogError(t)

\* Time passes from one polling time to the next.
AdvanceClock ==
    /\ clock < MaxPolls * PollPeriod
    /\ clock' = clock + PollPeriod
    /\ UNCHANGED <<priceData, indicators, users, strategies, orders, execs, positions, trades, ticks,
                   errorLog, lastPoll, book, lastOp, calls, faults>>

(***************************************************************************)
(* The initial state: the tables after the strategies were created.        *)
(***************************************************************************)
DipOnly ==
    [present |-> TRUE, minPrice |-> Absent, maxPrice |-> Absent,
     onlyBuyDips |-> TRUE, dipThreshold |-> -5]

NoLimits == [maxInvestment |-> Absent, maxExecutions |-> Absent, endDate |-> Absent]

Strategy(tokenOut, conditions, limits) ==
    [userId |-> "u1",
     walletId |-> "w1",
     isActive |-> TRUE,
     isPaused |-> FALSE,
     config |-> [tokenIn |-> [mint |-> "USDC"],
                 tokenOut |-> [mint |-> tokenOut],
                 amount |-> 2,
                 frequency |-> [type |-> "interval", value |-> [n |-> 10, unit |-> "m"]],
                 conditions |-> conditions,
                 limits |-> limits,
                 advanced |-> [valueAveraging |-> FALSE, weekendBoost |-> FALSE]],
     stats |-> [totalExecutions |-> 0, totalInvested |-> 0,
                lastExecution |-> Absent, nextExecution |-> 0],
     executions |-> <<>>]

InitialStrategies ==
    {Strategy("SOL", NoConditions, NoLimits),
     Strategy("SOL", DipOnly, NoLimits),
     Strategy("SOL", DipOnly, [NoLimits EXCEPT !.maxExecutions = 1]),
     Strategy("SOL", DipOnly, [NoLimits EXCEPT !.endDate = PollPeriod])}

\* A strategy that was deactivated before the first tick.
Deactivated(strategy) == [strategy EXCEPT !.isActive = FALSE]

User(dailyTrades, maxOpenPositions) ==
    [isActive |-> TRUE,
     limits |-> [dailyTrades |-> dailyTrades, maxOpenPositions |-> maxOpenPositions],
     stats |-> [totalTrades |-> 0, totalVolume |-> R(0), totalPnL |-> R(0)],
     lastActive |-> 0]

Init ==
    /\ clock = 0
    /\ users \in [UserIds -> {User(1, 5), User(10, 5)}]
    /\ \E s1 \in InitialStrategies :
          strategies = [s \in StrategyIds |->
                           IF s = "s1" THEN s1
                           ELSE Deactivated(Strategy("BONK", NoConditions, NoLimits))]
    /\ orders = <<>>
    /\ execs = <<>>
    /\ positions = <<>>
    /\ trades = <<>>
    /\ ticks = [t \in TickIds |-> IdleTick]
    /\ errorLog = <<>>
    /\ lastPoll = -1
    /\ book = [k \in UserIds \X Tokens |-> NoEntry]
    /\ lastOp = NoOp
    /\ calls = 0
    /\ faults = 0
    /\ NoPriceData

Next ==
    \/ AdvanceClock
    \/ ExecuteScheduledStrategies
    \/ ExecuteTrade

Spec == Init /\ [][Next]_vars

(***************************************************************************)
(* The position ledger under orders placed by users, calls of the public   *)
(* mutation updatePosition and wallet syncs (specification SpecLedger).    *)
(***************************************************************************)
UserOrderArgs ==
    {[userId |-> "u1", walletId |-> "w1", side |-> "buy",
      tokenIn |-> [mint |-> "USDC", amount |-> n],
      tokenOut |-> [mint |-> m], strategyId |-> NoStrategy] : n \in {1, 2}, m \in Tokens}
    \cup
    {[userId |-> "u1", walletId |-> "w1", side |-> "sell",
      tokenIn |-> [mint |-> m, amount |-> n],
      tokenOut |-> [mint |-> "USDC"], strategyId |-> NoStrategy] : n \in {3, 4}, m \in Tokens}

\* A client places a market order.
UserPlaceTrade ==
    /\ \E a \in UserOrderArgs : PlaceTrade(a)
    /\ UNCHANGED <<priceData, indicators, clock, strategies, positions, trades, ticks, errorLog,
                   lastPoll, book, lastOp, calls, faults>>

\* One committed call of updatePosition outside an order.
CommitUpdatePosition(a) ==
    /\ calls < MaxCalls
    /\ UpdatePosition(positions, a).ok
    /\ positions' = UpdatePosition(positions, a).positions
    /\ book' = Booked(book, a)
    /\ lastOp' = LedgerOp(positions, a, UpdatePosition(positions, a), 0)
    /\ calls' = calls + 1
    /\ UNCHANGED <<priceData, indicators, clock, users, strategies, orders, execs, trades, ticks,
                   errorLog, lastPoll, faults>>

ClientFills ==
    [userId : UserIds, tokenMint : Tokens, amount : {R(1)},
     price : {R(2), R(5)}, action : {"add", "remove"}]

\* A client calls the mutation updatePosition with a fill.
CallUpdatePosition == \E a \in ClientFills : CommitUpdatePosition(a)

\* syncWalletBalance, lines 528-542: one turn of the loop, which refreshes
\* the position of a token the wallet holds, with the price "0".
SyncWalletBalance ==
    \E token \in Tokens, amount \in {R(3)} :
        CommitUpdatePosition([userId |-> "u1", tokenMint |-> token, amount |-> amount,
                              price |-> R(0), action |-> "update"])

InitLedger ==
    /\ clock = 0
    /\ users = [u \in UserIds |-> User(10, 5)]
    /\ strategies = [s \in StrategyIds |->
                        Deactivated(Strategy("SOL", NoConditions, NoLimits))]
    /\ orders = <<>>
    /\ execs = <<>>
    /\ positions = <<>>
    /\ trades = <<>>
    /\ ticks = [t \in TickIds |-> IdleTick]
    /\ errorLog = <<>>
    /\ lastPoll = -1
    /\ book = [k \in UserIds \X Tokens |-> NoEntry]
    /\ lastOp = NoOp
    /\ calls = 0
    /\ faults = 0
    /\ NoPriceData

NextLedger ==
    \/ UserPlaceTrade
    \/ ExecuteTrade
    \/ CallUpdatePosition
    \/ SyncWalletBalance

SpecLedger == InitLedger /\ [][NextLedger]_vars

(***************************************************************************)
(* Properties of the scheduler (specification Spec).                       *)
(***************************************************************************)
Executions(s) == strategies[s].executions

\* C1: no strategy has two execution records for the same
\* (strategyId, scheduledTime), whatever ticks ran, overlapped or failed
\* after the order was placed.
NoDuplicateExecutionRecord ==
    \A s \in StrategyIds :
        \A i, j \in 1..Len(Executions(s)) :
            i # j => Executions(s)[i].scheduledTime # Executions(s)[j].scheduledTime

\* The ticks that have placed an order for strategy s and have not yet
\* finished its execution.
ExecutingTicks(s) ==
    {t \in TickIds : ticks[t].pc \in {"record", "next"} /\ Current(t).id = s}

\* C2: at most one execution of a strategy is in flight: while a tick is
\* executing a strategy, an overlapping tick places no order for it.
AtMostOneInFlight ==
    \A s \in StrategyIds : Cardinality(ExecutingTicks(s)) <= 1

\* C3: a strategy has an execution record only for an order that the
\* gateway has filled (status completed), never for a pending, executing or
\* failed order.
RecordOnlyAfterFill ==
    \A s \in StrategyIds :
        \A i \in 1..Len(Executions(s)) :
            orders[Executions(s)[i].orderId].status = "completed"

\* Tick t skips its current strategy in this step.
IsSkip(t) ==
    /\ ticks[t].pc = "check"
    /\ ticks'[t].results.skipped = ticks[t].results.skipped + 1

IsCaughtPlacement(t) ==
    /\ ticks[t].pc = "logError"
    /\ ticks[t].orderId = 0
    /\ Len(errorLog') = Len(errorLog) + 1

\* C5: after a failed placement the error is logged, the strategy stays
\* Active and its next attempt is at its next regular slot, later than the
\* failed tick, not at the next polling time.
PlacementFailureKeepsCadence ==
    [][\A t \in TickIds :
          IsCaughtPlacement(t) =>
              /\ ActiveDoc(strategies'[Current(t).id])
              /\ strategies'[Current(t).id].stats.nextExecution > ticks[t].now]_vars

\* C6: a strategy is Completed as soon as its endTime has passed: once a
\* tick later than endDate has run to its end, the strategy is not active.
CompletedWhenEndTimePassed ==
    \A s \in StrategyIds :
        ( /\ Truthy(strategies[s].config.limits.endDate)
          /\ lastPoll > strategies[s].config.limits.endDate
          /\ \A t \in TickIds : ticks[t].pc = "idle" )
        => ~strategies[s].isActive

(***************************************************************************)
(* Properties of the position ledger (specification SpecLedger).           *)
(***************************************************************************)
Keys == UserIds \X Tokens

RowOf(pos, k) == FindPosition(pos, k[1], k[2])

\* C7: fills applied to one (userId, tokenMint) by calls that run at the same
\* time are serialized.  There is at most one position row per key, and the
\* row holds the quantity and the cost basis that applying the committed
\* fills one after the other gives (the book): no fill is lost.
FillsSerialized ==
    /\ \A i, j \in 1..Len(positions) :
          (positions[i].userId = positions[j].userId
           /\ positions[i].tokenMint = positions[j].tokenMint) => i = j
    /\ \A k \in Keys :
          IF RowOf(positions, k) = 0
          THEN book[k].qty = R(0)
          ELSE /\ positions[RowOf(positions, k)].amount = book[k].qty
               /\ RMul(positions[RowOf(positions, k)].amount,
                       positions[RowOf(positions, k)].averagePrice) = book[k].cost

\* C7, witness: two executeTrade actions for buys of the same token are in
\* flight together, both have had their fill applied, and the row holds the
\* two fills.
TwoFillsInFlightApplied ==
    /\ Len(orders) = 2
    /\ orders[1].side = "buy" /\ orders[2].side = "buy"
    /\ orders[1].tokenOut.mint = orders[2].tokenOut.mint
    /\ execs[1].pc = "completed" /\ execs[2].pc = "completed"
    /\ lastOp.orderId = 1
    /\ RowOf(positions, <<"u1", orders[1].tokenOut.mint>>) # 0
    /\ positions[RowOf(positions, <<"u1", orders[1].tokenOut.mint>>)].amount = R(8)

\* C8: after buy fills (q_i, p_i) only, applied to a key that had no
\* position, the quantity of the position is the sum of the q_i and its
\* average cost is sum(q_i * p_i) / sum(q_i).
BuyFillsWeightedAverage ==
    \A k \in Keys :
        (RowOf(positions, k) # 0 /\ book[k].buysOnly) =>
            /\ positions[RowOf(positions, k)].amount = book[k].sumQ
            /\ positions[RowOf(positions, k)].averagePrice
                  = RDiv(book[k].sumQP, book[k].sumQ)

\* C8, witness: a position built by buy fills at different prices, so that
\* its average cost is the price of none of them.
BoughtAtDifferentPrices ==
    \E k \in Keys :
        /\ RowOf(positions, k) # 0
        /\ book[k].buysOnly
        /\ lastOp.action = "updated"
        /\ lastOp.args[1].action = "add"
        /\ lastOp.args[1].tokenMint = k[2]
        /\ lastOp.before[1].averagePrice # lastOp.args[1].price
        /\ positions[RowOf(positions, k)].averagePrice # lastOp.args[1].price
        /\ positions[RowOf(positions, k)].averagePrice # lastOp.before[1].averagePrice

\* C9: a sell fill of at least the whole position closes the position, and
\* the trade recorded for it carries the realized PnL
\* (sellPrice - averageCost) * oldQuantity.
FullSellRecordsRealizedPnl ==
    \A i \in 1..Len(trades) :
        (lastOp.action = "closed" /\ lastOp.orderId = trades[i].orderId) =>
            /\ RowOf(positions, <<trades[i].userId, trades[i].tokenIn.mint>>) = 0
            /\ trades[i].pnl # <<>>
            /\ trades[i].pnl[1].realized
                  = RMul(RSub(lastOp.args[1].price, lastOp.before[1].averagePrice),
                         lastOp.before[1].amount)

\* C10: the average cost of an existing position changes only on a buy fill
\* (an "add"): a partial sell and a price refresh (an "update") leave it as it
\* was, and a price refresh leaves the quantity as it was too.
AverageCostChangesOnlyOnBuys ==
    [][\A k \in Keys :
          (RowOf(positions, k) # 0 /\ RowOf(positions', k) # 0
           /\ positions' # positions) =>
              /\ (positions'[RowOf(positions', k)].averagePrice
                     # positions[RowOf(positions, k)].averagePrice)
                    => /\ lastOp'.args[1].action = "add"
                       /\ lastOp'.args[1].tokenMint = k[2]
              /\ lastOp'.args[1].action = "update"
                    => positions'[RowOf(positions', k)].amount
                          = positions[RowOf(positions, k)].amount]_vars

\* C10, witness: a partial sell at a price other than the average cost has
\* just reduced a position, after a price refresh of the same position.
PartialSellAfterRefresh ==
    /\ lastOp.action = "reduced"
    /\ lastOp.before[1].averagePrice # lastOp.args[1].price
    /\ lastOp.before[1].currentPrice = R(0)
    /\ lastOp.before[1].averagePrice # R(0)

(***************************************************************************)
(* The position ledger under fills of any non-negative amount              *)
(* (specification SpecFills): updatePosition is a public mutation whose    *)
(* amount is any numeric string, "0" included.                             *)
(***************************************************************************)
AnyFills ==
    [userId : UserIds, tokenMint : Tokens, amount : {R(0), R(1), R(3)},
     price : {R(2), R(5)}, action : {"add", "remove"}]

\* A client calls the mutation updatePosition with a fill of an amount >= 0.
CallUpdatePositionAny == \E a \in AnyFills : CommitUpdatePosition(a)

\* syncWalletBalance, lines 528-542, for a token of any amount the wallet
\* holds: the loop calls updatePosition only when the amount is > 0.
SyncWalletToken ==
    \E token \in Tokens, amount \in {R(0), R(3)} :
        /\ RLess(R(0), amount)
        /\ CommitUpdatePosition([userId |-> "u1", tokenMint |-> token,
                                 amount |-> amount, price |-> R(0),
                                 action |-> "update"])

NextFills ==
    \/ CallUpdatePositionAny
    \/ SyncWalletToken

SpecFills == InitLedger /\ [][NextFills]_vars

\* C11: after fills and price refreshes of non-negative amounts every stored
\* position has a quantity >= 0, and none is stored with the quantity 0: a
\* position whose quantity is 0 is closed.
NoZeroQuantityStored ==
    \A i \in 1..Len(positions) :
        /\ RGeq(positions[i].amount, R(0))
        /\ positions[i].amount # R(0)

(***************************************************************************)
(* actions/dca: processValueAveraging, one step per transaction             *)
(* (specification SpecValueAveraging).  A pass is the running invocation:   *)
(* the strategies it read, the one it is at, the amount it has computed,    *)
(* and how many strategies it has placed a trade for (executed) or has      *)
(* caught an error for (failed).                                            *)
(***************************************************************************)
PassIds == {"va", "wb"}

IdlePass ==
    [pc |-> "idle", due |-> <<>>, idx |-> 0, amount |-> R(0),
     executed |-> 0, failed |-> 0]

\* The pass after it has finished with its current strategy.
AdvancedPass(p, pc) ==
    IF p.idx = Len(p.due)
    THEN [IdlePass EXCEPT !.executed = p.executed, !.failed = p.failed]
    ELSE [p EXCEPT !.idx = @ + 1, !.pc = pc, !.amount = R(0)]

\* getValueAveragingStrategies: the Active strategies that have value
\* averaging switched on.
GetValueAveragingStrategies ==
    SeqOfSet({s \in StrategyIds :
                 IsActive(s) /\ strategies[s].config.advanced.valueAveraging})

\* calculateTargetValue: baseAmount * (totalExecutions + 1).
CalculateTargetValue(strategy) ==
    RMul(R(strategy.config.amount), R(strategy.stats.totalExecutions + 1))

\* getCurrentPositionValue: the market value of the position in the token
\* the strategy buys, 0 when there is none.
GetCurrentPositionValue(pos, strategy) ==
    IF FindPosition(pos, strategy.userId, strategy.config.tokenOut.mint) = 0
    THEN R(0)
    ELSE pos[FindPosition(pos, strategy.userId, strategy.config.tokenOut.mint)].marketValue

\* adjustForMarketConditions: conditions?.volatilityAdjustment is undefined
\* for a strategy with no conditions and for conditions without that field.
AdjustForMarketConditions(amount, conditions) ==
    IF /\ conditions.present
       /\ "volatilityAdjustment" \in DOMAIN conditions
       /\ conditions.volatilityAdjustment
    THEN RMul(amount, <<4, 5>>)
    ELSE amount

InvestmentAmount(strategy, currentValue) ==
    RSub(CalculateTargetValue(strategy), currentValue)

\* Line 99: the pass reads the value averaging strategies.
VaStart(t) ==
    /\ ticks[t].pc = "idle"
    /\ GetValueAveragingStrategies # <<>>
    /\ ticks' = [ticks EXCEPT ![t] =
                    [IdlePass EXCEPT !.pc = "value",
                                     !.due = GetValueAveragingStrategies,
                                     !.idx = 1]]
    /\ UNCHANGED <<priceData, indicators, clock, users, strategies, orders, execs, positions, trades,
                   errorLog, lastPoll, book, lastOp, calls, faults>>

\* VaValue with a guard that lets an investment amount of 0 through.
VaValueSkippingNegative(t) ==
    /\ ticks[t].pc = "value"
    /\ LET investmentAmount ==
               InvestmentAmount(Current(t).doc,
                                GetCurrentPositionValue(positions, Current(t).doc))
       IN  ticks' = [ticks EXCEPT ![t] =
                IF RLess(investmentAmount, R(0))
                THEN AdvancedPass(ticks[t], "value")
                ELSE [ticks[t] EXCEPT
                         !.pc = "place",
                         !.amount = AdjustForMarketConditions(
                                        investmentAmount,
                                        Current(t).doc.config.conditions)]]
    /\ UNCHANGED <<priceData, indicators, clock, users, strategies, orders, execs, positions, trades,
                   errorLog, lastPoll, book, lastOp, calls, faults>>

\* Lines 103-121: the target, the current value of the position and the
\* amount to invest; the strategy is skipped when that amount is <= 0.
\* getCurrentPositionValue asks api.queries.portfolio.getPosition for the
\* position of (userId, tokenMint).  The getPosition of queries/portfolio.ts
\* takes a positionId and rejects these arguments, so with that query the
\* call throws every time; a query that takes them answers with the
\* position.  Both outcomes are steps here.  When the query throws, the
\* catch block of lines 144-146 writes to the console and the loop goes on.
VaValue(t) ==
    /\ ticks[t].pc = "value"
    /\ \/ LET investmentAmount ==
                  InvestmentAmount(Current(t).doc,
                                   GetCurrentPositionValue(positions, Current(t).doc))
          IN  ticks' = [ticks EXCEPT ![t] =
                   IF RGeq(R(0), investmentAmount)
                   THEN AdvancedPass(ticks[t], "value")
                   ELSE [ticks[t] EXCEPT
                            !.pc = "place",
                            !.amount = AdjustForMarketConditions(
                                           investmentAmount,
                                           Current(t).doc.config.conditions)]]
       \/ ticks' = [ticks EXCEPT ![t] =
                       AdvancedPass([ticks[t] EXCEPT !.failed = @ + 1], "value")]
    /\ UNCHANGED <<priceData, indicators, clock, users, strategies, orders, execs, positions, trades,
                   errorLog, lastPoll, book, lastOp, calls, faults>>

\* The arguments of the placeTrade call of lines 124-141.
VaOrderArgs(strategy, id, amount) ==
    [userId |-> strategy.userId,
     walletId |-> strategy.walletId,
     side |-> "buy",
     tokenIn |-> [mint |-> strategy.config.tokenIn.mint, amount |-> amount],
     tokenOut |-> [mint |-> strategy.config.tokenOut.mint],
     strategyId |-> id]

\* Lines 123-146: placeTrade commits, or it throws and the catch block
\* writes to the console.
VaPlace(t) ==
    /\ ticks[t].pc = "place"
    /\ LET a == VaOrderArgs(Current(t).doc, Current(t).id, ticks[t].amount)
       IN  \/ /\ PlaceTrade(a)
              /\ ticks' = [ticks EXCEPT ![t] =
                              AdvancedPass([ticks[t] EXCEPT !.executed = @ + 1], "value")]
           \/ /\ PlaceTradeError(a) # "ok"
              /\ ticks' = [ticks EXCEPT ![t] =
                              AdvancedPass([ticks[t] EXCEPT !.failed = @ + 1], "value")]
              /\ UNCHANGED <<users, orders, execs>>
    /\ UNCHANGED <<priceData, indicators, clock, strategies, positions, trades, errorLog, lastPoll,
                   book, lastOp, calls, faults>>

ProcessValueAveraging ==
    \/ VaStart("va")
    \/ VaValue("va")
    \/ VaPlace("va")

\* A value averaging strategy that has executed n times.
VaStrategy(tokenOut, n) ==
    [Strategy(tokenOut, NoConditions, NoLimits) EXCEPT
        !.config.advanced.valueAveraging = TRUE,
        !.stats.totalExecutions = n,
        !.stats.totalInvested = n * 2]

\* The positions table with one position, opened by a buy of amount at price.
Holding(tokenMint, amount, price) ==
    <<CreatedPosition([userId |-> "u1", tokenMint |-> tokenMint,
                       amount |-> R(amount), price |-> R(price),
                       action |-> "add"])>>

InitValueAveraging ==
    /\ clock = 0
    /\ users \in [UserIds -> {User(1, 5), User(10, 5)}]
    /\ \E n1 \in 0..2, n2 \in 0..2 :
          strategies = [s \in StrategyIds |->
                           IF s = "s1" THEN VaStrategy("SOL", n1)
                           ELSE VaStrategy("BONK", n2)]
    /\ orders = <<>>
    /\ execs = <<>>
    /\ positions \in {<<>>, Holding("SOL", 1, 2), Holding("SOL", 3, 2),
                      Holding("BONK", 1, 5)}
    /\ trades = <<>>
    /\ ticks = [t \in TickIds \cup PassIds |->
                   IF t \in TickIds THEN IdleTick ELSE IdlePass]
    /\ errorLog = <<>>
    /\ lastPoll = -1
    /\ book = [k \in UserIds \X Tokens |-> NoEntry]
    /\ lastOp = NoOp
    /\ calls = 0
    /\ faults = 0
    /\ NoPriceData

NextValueAveraging == ProcessValueAveraging

SpecValueAveraging == InitValueAveraging /\ [][NextValueAveraging]_vars

\* The value averaging pass places an order in this step.
VaPlaces ==
    /\ ticks["va"].pc = "place"
    /\ Len(orders') = Len(orders) + 1

\* The value averaging pass, in this step, gets the current value of the
\* position of its current strategy.
VaValued ==
    /\ ticks["va"].pc = "value"
    /\ ticks'["va"] # ticks["va"]
    /\ ticks'["va"].failed = ticks["va"].failed

OrdersOf(s) == {o \in 1..Len(orders) : orders[o].strategyId = s}

\* Strategy s has no price bounds, no dip condition and no limits.
IsPlain(s) ==
    /\ strategies[s].config.conditions = NoConditions
    /\ strategies[s].config.limits = NoLimits

\* Every scheduled execution so far has succeeded: no call has failed,
\* nothing was logged, no tick is running and every order is filled.
AllExecutionsSucceeded ==
    /\ faults = 0
    /\ errorLog = <<>>
    /\ \A t \in TickIds : ticks[t].pc = "idle"
    /\ \A o \in 1..Len(orders) : orders[o].status = "completed"

\* C13: for an interval strategy with no price bounds, no dip condition and
\* no limits, after n successful scheduled executions totalExecutions is n
\* and totalInvested is n times the amount per execution.
StatsCountExecutions ==
    \A s \in StrategyIds :
        (IsPlain(s) /\ AllExecutionsSucceeded) =>
            /\ strategies[s].stats.totalExecutions = Cardinality(OrdersOf(s))
            /\ strategies[s].stats.totalInvested
                  = Cardinality(OrdersOf(s)) * strategies[s].config.amount

\* C13, witness: two executions of the plain strategy have succeeded, one
\* at each of two slots.
TwoExecutionsSucceeded ==
    /\ IsPlain("s1")
    /\ AllExecutionsSucceeded
    /\ Cardinality(OrdersOf("s1")) = 2
    /\ strategies["s1"].stats.totalExecutions = 2
    /\ strategies["s1"].stats.totalInvested = 4
    /\ strategies["s1"].executions[1].scheduledTime
          # strategies["s1"].executions[2].scheduledTime

(***************************************************************************)
(* The scheduler over dip-only strategies of several thresholds             *)
(* (specification SpecDip): the ticks alone, the orders they place stay     *)
(* pending.                                                                 *)
(***************************************************************************)
DipThresholds == {-10, -5, 0}

InitDip ==
    /\ clock = 0
    /\ users = [u \in UserIds |-> User(10, 5)]
    /\ \E T \in DipThresholds :
          strategies = [s \in StrategyIds |->
              IF s = "s1"
              THEN Strategy("SOL", [DipOnly EXCEPT !.dipThreshold = T], NoLimits)
              ELSE Deactivated(Strategy("BONK", NoConditions, NoLimits))]
    /\ orders = <<>>
    /\ execs = <<>>
    /\ positions = <<>>
    /\ trades = <<>>
    /\ ticks = [t \in TickIds |-> IdleTick]
    /\ errorLog = <<>>
    /\ lastPoll = -1
    /\ book = [k \in UserIds \X Tokens |-> NoEntry]
    /\ lastOp = NoOp
    /\ calls = 0
    /\ faults = 0
    /\ NoPriceData

NextDip ==
    \/ AdvanceClock
    \/ ExecuteScheduledStrategies

SpecDip == InitDip /\ [][NextDip]_vars

\* Tick t, in this step, checks the conditions of a strategy that has only
\* the dip condition, with a configured threshold.
ChecksDipOnly(t) ==
    /\ ticks[t].pc = "check"
    /\ ticks'[t] # ticks[t]
    /\ Current(t).doc.config.conditions.present
    /\ Current(t).doc.config.conditions.onlyBuyDips
    /\ Current(t).doc.config.conditions.dipThreshold # Absent
    /\ Current(t).doc.config.limits = NoLimits

\* C14: a dip-only strategy with the configured threshold T <= 0 passes its
\* check if and only if the 24h price change is <= T: a check that passes
\* has seen a change <= T, a check that skips has seen a change > T.  The
\* changes a check can see are those of Changes.
DipComparedWithConfiguredThreshold ==
    [][\A t \in TickIds :
          ChecksDipOnly(t) =>
              IF ticks'[t].pc = "place"
              THEN \E c \in Changes : c <= Current(t).doc.config.conditions.dipThreshold
              ELSE \E c \in Changes : c > Current(t).doc.config.conditions.dipThreshold]_vars

(***************************************************************************)
(* actions/dca: weekendBoost, and the pause and the resumption of a         *)
(* strategy; the three scheduled passes over two strategies of one user,    *)
(* all started at one time (specification SpecPasses).                      *)
(***************************************************************************)
\* getActiveStrategies: the Active strategies.
GetActiveStrategies == SeqOfSet({s \in StrategyIds : IsActive(s)})

\* Lines 157-166: the pass reads the active strategies.
WbStart(t) ==
    /\ ticks[t].pc = "idle"
    /\ GetActiveStrategies # <<>>
    /\ ticks' = [ticks EXCEPT ![t] =
                    [IdlePass EXCEPT !.pc = "boost",
                                     !.due = GetActiveStrategies,
                                     !.idx = 1]]
    /\ UNCHANGED <<priceData, indicators, clock, users, strategies, orders, execs, positions, trades,
                   errorLog, lastPoll, book, lastOp, calls, faults>>

\* Lines 167-200: a strategy without config.advanced.weekendBoost is passed
\* over; for the others placeTrade is called with 1.5 times the amount, and
\* an error is written to the console.
WbBoost(t) ==
    /\ ticks[t].pc = "boost"
    /\ IF ~Current(t).doc.config.advanced.weekendBoost
       THEN /\ ticks' = [ticks EXCEPT ![t] = AdvancedPass(ticks[t], "boost")]
            /\ UNCHANGED <<users, orders, execs>>
       ELSE LET a == VaOrderArgs(Current(t).doc, Current(t).id,
                                 RMul(R(Current(t).doc.config.amount), <<3, 2>>))
            IN  \/ /\ PlaceTrade(a)
                   /\ ticks' = [ticks EXCEPT ![t] =
                                   AdvancedPass([ticks[t] EXCEPT !.executed = @ + 1],
                                                "boost")]
                \/ /\ PlaceTradeError(a) # "ok"
                   /\ ticks' = [ticks EXCEPT ![t] =
                                   AdvancedPass([ticks[t] EXCEPT !.failed = @ + 1],
                                                "boost")]
                   /\ UNCHANGED <<users, orders, execs>>
    /\ UNCHANGED <<priceData, indicators, clock, strategies, positions, trades, errorLog, lastPoll,
                   book, lastOp, calls, faults>>

WeekendBoost ==
    \/ WbStart("wb")
    \/ WbBoost("wb")

\* The invocations that are at strategy s: they have read its document and
\* have not finished with it.
AtStrategy(s) ==
    {t \in DOMAIN ticks : ticks[t].pc # "idle" /\ Current(t).id = s}

\* pauseStrategy: the strategy becomes Paused.  inFlight is no field of the
\* code: it keeps which invocations were at the strategy when it was paused.
PauseStrategy(s) ==
    /\ IsActive(s)
    /\ strategies' = [strategies EXCEPT ![s].isPaused = TRUE,
                                        ![s].inFlight = AtStrategy(s)]
    /\ UNCHANGED <<priceData, indicators, clock, users, orders, execs, positions, trades, ticks,
                   errorLog, lastPoll, book, lastOp, calls, faults>>

\* resumeStrategy: the strategy becomes Active again.
ResumeStrategy(s) ==
    /\ strategies[s].isActive
    /\ strategies[s].isPaused
    /\ strategies' = [strategies EXCEPT ![s].isPaused = FALSE,
                                        ![s].inFlight = {}]
    /\ UNCHANGED <<priceData, indicators, clock, users, orders, execs, positions, trades, ticks,
                   errorLog, lastPoll, book, lastOp, calls, faults>>

PauseOrResume ==
    \E s \in StrategyIds :
        \/ PauseStrategy(s)
        \/ ResumeStrategy(s)

InitPasses ==
    /\ clock = 0
    /\ users \in [UserIds -> {User(1, 5), User(10, 5)}]
    /\ \E va \in BOOLEAN :
          strategies = [s \in StrategyIds |->
              [Strategy(IF s = "s1" THEN "SOL" ELSE "BONK", NoConditions, NoLimits)
                  EXCEPT !.config.advanced.valueAveraging = (va /\ s = "s2")]
              @@ [inFlight |-> {}]]
    /\ orders = <<>>
    /\ execs = <<>>
    /\ positions = <<>>
    /\ trades = <<>>
    /\ ticks = [t \in TickIds \cup PassIds |->
                   IF t \in TickIds THEN IdleTick ELSE IdlePass]
    /\ errorLog = <<>>
    /\ lastPoll = -1
    /\ book = [k \in UserIds \X Tokens |-> NoEntry]
    /\ lastOp = NoOp
    /\ calls = 0
    /\ faults = 0
    /\ NoPriceData

NextPasses ==
    \/ ExecuteScheduledStrategies
    \/ ProcessValueAveraging
    \/ WeekendBoost
    \/ PauseOrResume

SpecPasses == InitPasses /\ [][NextPasses]_vars

\* The periodic due-check alone over the two strategies, which their owner
\* pauses and resumes (specification SpecTicks).
NextTicks ==
    \/ ExecuteScheduledStrategies
    \/ PauseOrResume

SpecTicks == InitPasses /\ [][NextTicks]_vars

(***************************************************************************)
(* Properties of the passes (specifications SpecTicks and SpecPasses).     *)
(***************************************************************************)
\* placeTrade would refuse an order for the strategy tick t is at even if
\* the user had no orders and no positions but those of that strategy.
RefusedOnOwnAccount(t) ==
    LET doc == Current(t).doc
        own == TodayOrders(doc.userId, clock) \cap OrdersOf(Current(t).id)
        held == {i \in OpenPositions(doc.userId) :
                    positions[i].tokenMint = doc.config.tokenOut.mint}
    IN  \/ Cardinality(own) >= users[doc.userId].limits.dailyTrades
        \/ Cardinality(held) >= users[doc.userId].limits.maxOpenPositions

\* C15: strategies do not interfere.  Whether the order of a due strategy is
\* placed does not depend on the executions of other strategies: placeTrade
\* refuses it only on account of that strategy's own orders and position.
PlacementIndependentOfOthers ==
    [][\A t \in TickIds :
          (ticks[t].pc = "place" /\ ticks'[t].pc = "logError")
              => RefusedOnOwnAccount(t)]_vars

\* Invocation t places an order for strategy s in this step.
PlacesFor(t, s) ==
    /\ ticks[t].pc \in {"place", "boost"}
    /\ Current(t).id = s
    /\ ticks'[t] # ticks[t]
    /\ Len(orders') = Len(orders) + 1

\* C16: while a strategy is paused no scheduled pass places a trade for it,
\* except an invocation that was at that strategy when it was paused; and
\* pausing cancels no order.
PauseStopsScheduling ==
    [][\A s \in StrategyIds :
          /\ \A t \in DOMAIN ticks :
                (strategies[s].isPaused /\ PlacesFor(t, s))
                    => t \in strategies[s].inFlight
          /\ (~strategies[s].isPaused /\ strategies'[s].isPaused)
                => orders' = orders /\ execs' = execs]_vars

\* C17: every failed attempt made on behalf of a strategy is recorded
\* against it: when a pass or a tick has caught a failure, the error log
\* has a new entry.
EveryFailureRecorded ==
    [][/\ \A t \in PassIds :
             ticks'[t].failed > ticks[t].failed => Len(errorLog') > Len(errorLog)
       /\ \A t \in TickIds :
             (ticks[t].pc = "logError" /\ ticks'[t] # ticks[t])
                 => Len(errorLog') > Len(errorLog)]_vars

(***************************************************************************)
(* Technical analysis (calculateAllIndicators and the functions it calls). *)
(* A price is an exact rational; null is Null.                             *)
(***************************************************************************)

\* JavaScript truthiness of number | null: null, 0 and NaN are falsy.
TruthyNum(x) == x # Null /\ x[1] # 0

\* No strategy, order or position: the state of the trading tables while
\* only the technical analysis runs.
NoTrading ==
    /\ clock = 0
    /\ users = [u \in UserIds |-> User(10, 5)]
    /\ strategies = [s \in StrategyIds |->
                        Deactivated(Strategy("SOL", NoConditions, NoLimits))]
    /\ orders = <<>>
    /\ execs = <<>>
    /\ positions = <<>>
    /\ trades = <<>>
    /\ ticks = [t \in TickIds |-> IdleTick]
    /\ errorLog = <<>>
    /\ lastPoll = -1
    /\ book = [k \in UserIds \X Tokens |-> NoEntry]
    /\ lastOp = NoOp
    /\ calls = 0
    /\ faults = 0

\* calculateBollingerBands once the moving average and the standard
\* deviation of the window are known: null when the average is null or 0.
BollingerBands(sma, standardDeviation, stdDev) ==
    IF ~TruthyNum(sma) THEN Null
    ELSE [upper |-> RAdd(sma, RMul(standardDeviation, stdDev)),
          middle |-> sma,
          lower |-> RSub(sma, RMul(standardDeviation, stdDev))]

\* One entry of signals.signals.
Signal(type, signal, strength) ==
    [type |-> type, signal |-> signal, strength |-> strength]

Silent == [push |-> <<>>, bullish |-> 0, bearish |-> 0]

RsiSignals(rsi) ==
    IF ~TruthyNum(rsi) THEN Silent
    ELSE IF RLess(rsi, R(30))
         THEN [push |-> <<Signal("RSI", "oversold", "strong")>>,
               bullish |-> 2, bearish |-> 0]
    ELSE IF RLess(R(70), rsi)
         THEN [push |-> <<Signal("RSI", "overbought", "strong")>>,
               bullish |-> 0, bearish |-> 2]
    ELSE Silent

MacdSignals(macd) ==
    IF macd = Null THEN Silent
    ELSE IF RLess(macd.signal, macd.macd) /\ RLess(R(0), macd.histogram)
         THEN [push |-> <<Signal("MACD", "bullish_crossover", "medium")>>,
               bullish |-> 1, bearish |-> 0]
    ELSE IF RLess(macd.macd, macd.signal) /\ RLess(macd.histogram, R(0))
         THEN [push |-> <<Signal("MACD", "bearish_crossover", "medium")>>,
               bullish |-> 0, bearish |-> 1]
    ELSE Silent

MovingAverageSignals(sma20, sma50, currentPrice) ==
    IF ~(TruthyNum(sma20) /\ TruthyNum(sma50)) THEN Silent
    ELSE IF RLess(sma20, currentPrice) /\ RLess(sma50, sma20)
         THEN [push |-> <<Signal("MA", "uptrend", "medium")>>,
               bullish |-> 1, bearish |-> 0]
    ELSE IF RLess(currentPrice, sma20) /\ RLess(sma20, sma50)
         THEN [push |-> <<Signal("MA", "downtrend", "medium")>>,
               bullish |-> 0, bearish |-> 1]
    ELSE Silent

BollingerSignals(bb, currentPrice) ==
    IF bb = Null THEN Silent
    ELSE IF RLess(currentPrice, bb.lower)
         THEN [push |-> <<Signal("BB", "oversold", "medium")>>,
               bullish |-> 1, bearish |-> 0]
    ELSE IF RLess(bb.upper, currentPrice)
         THEN [push |-> <<Signal("BB", "overbought", "medium")>>,
               bullish |-> 0, bearish |-> 1]
    ELSE Silent

Min(a, b) == IF a < b THEN a ELSE b

\* A variant of Overall in which a single net vote already gives a
\* direction.
OverallFromOneVote(netSignal, pushed) ==
    IF netSignal > 0
    THEN [overall |-> "bullish", strength |-> Min(100, netSignal * 20),
          signals |-> pushed]
    ELSE IF netSignal < 0
    THEN [overall |-> "bearish", strength |-> Min(100, Abs(netSignal) * 20),
          signals |-> pushed]
    ELSE [overall |-> "neutral", strength |-> 0, signals |-> pushed]

\* generateTradingSignals, "Determine overall signal".
Overall(netSignal, pushed) ==
    IF netSignal > 1
    THEN [overall |-> "bullish", strength |-> Min(100, netSignal * 20),
          signals |-> pushed]
    ELSE IF netSignal < -1
    THEN [overall |-> "bearish", strength |-> Min(100, Abs(netSignal) * 20),
          signals |-> pushed]
    ELSE [overall |-> "neutral", strength |-> 0, signals |-> pushed]

\* generateTradingSignals, from the indicator values that its first lines
\* compute from the prices.
GenerateTradingSignals(rsi, macd, bb, sma20, sma50, currentPrice) ==
    LET r == RsiSignals(rsi)
        m == MacdSignals(macd)
        a == MovingAverageSignals(sma20, sma50, currentPrice)
        b == BollingerSignals(bb, currentPrice)
        bullishSignals == r.bullish + m.bullish + a.bullish + b.bullish
        bearishSignals == r.bearish + m.bearish + a.bearish + b.bearish
    IN  Overall(bullishSignals - bearishSignals,
                r.push \o m.push \o a.push \o b.push)

\* The indicator values of the bounded model.  An indicator with a longer
\* window is null whenever one with a shorter window is.
RsiValues == {Null, R(0), R(20), R(30), R(50), R(70), R(80), R(100)}
MacdLines == {R(-1), R(0), R(1)}
MacdValues ==
    {Null} \cup {[macd |-> l, signal |-> g, histogram |-> RSub(l, g)] :
                    l \in MacdLines, g \in MacdLines}
Sma20Values == {Null, R(0), R(4), R(6)}
Sma50Values == {Null, R(3), R(5), R(7)}
Deviations == {R(0), R(1)}
CurrentPrices == {R(1), R(4), R(5), R(9)}

InitSignals ==
    /\ NoTrading
    /\ priceData = <<>>
    /\ \E rsi \in RsiValues, macd \in MacdValues, sma20 \in Sma20Values,
          sma50 \in Sma50Values, sd \in Deviations, price \in CurrentPrices :
          /\ sma20 # Null => rsi # Null
          /\ macd # Null => sma20 # Null
          /\ sma50 # Null => sma20 # Null
          /\ indicators = [rsi |-> rsi, macd |-> macd,
                           sma |-> [sma20 |-> sma20, sma50 |-> sma50],
                           bollingerBands |-> BollingerBands(sma20, sd, R(2)),
                           currentPrice |-> price,
                           signals |-> Null]

\* calculateAllIndicators, "Signal Summary".
SignalSummary ==
    /\ indicators # Null
    /\ indicators.signals = Null
    /\ indicators' =
          [indicators EXCEPT !.signals =
              GenerateTradingSignals(indicators.rsi, indicators.macd,
                                     indicators.bollingerBands,
                                     indicators.sma.sma20, indicators.sma.sma50,
                                     indicators.currentPrice)]
    /\ UNCHANGED <<priceData, clock, users, strategies, orders, execs, positions,
                   trades, ticks, errorLog, lastPoll, book, lastOp, calls,
                   faults>>

NextSignals == SignalSummary

SpecSignals == InitSignals /\ [][NextSignals]_vars

\* The weight of a recorded contribution: 2 for an RSI extreme, 1 for the
\* others; positive when it speaks for buying.
Weight(sig) ==
    (IF sig.type = "RSI" THEN 2 ELSE 1)
      * (IF sig.signal \in {"oversold", "bullish_crossover", "uptrend"}
         THEN 1 ELSE -1)

RECURSIVE NetOf(_)
NetOf(pushed) ==
    IF pushed = <<>> THEN 0 ELSE Weight(Head(pushed)) + NetOf(Tail(pushed))

\* C18: the overall signal is decided by net, the weighted bullish minus
\* bearish contributions, alone: neutral with strength 0 when |net| <= 1,
\* bullish with strength min(100, 20 net) when net > 1, bearish with strength
\* min(100, 20 |net|) when net < -1; so the strength is 0 exactly when the
\* signal is neutral and is otherwise one of 40, 60, 80, 100.
SignalDecidedByNet ==
    (indicators # Null /\ indicators.signals # Null) =>
        LET sig == indicators.signals
            net == NetOf(sig.signals)
        IN  /\ Abs(net) <= 1 => sig.overall = "neutral" /\ sig.strength = 0
            /\ net > 1 => /\ sig.overall = "bullish"
                          /\ sig.strength = Min(100, 20 * net)
            /\ net < -1 => /\ sig.overall = "bearish"
                           /\ sig.strength = Min(100, 20 * Abs(net))
            /\ sig.strength = 0 <=> sig.overall = "neutral"
            /\ sig.overall # "neutral" => sig.strength \in {40, 60, 80, 100}

\* A signal summary with net = 3 from at least two contributions: bullish
\* with strength 60.
BullishOnThreeVotes ==
    /\ indicators # Null
    /\ indicators.signals # Null
    /\ indicators.signals.overall = "bullish"
    /\ indicators.signals.strength = 60
    /\ Len(indicators.signals.signals) >= 2

(***************************************************************************)
(* Moving averages and RSI over a price history (specification             *)
(* SpecIndicators).                                                        *)
(***************************************************************************)
HourMs == 60 * 60 * 1000
RsiPeriod == 14
SmaPeriods == {20, 50, 200}
MinDataPoints == 20

\* How many candles more than a window the histories of the model have.
MaxExtra == 1

\* getPriceHistory, "Convert to OHLCV format": one candle per bucket.
Candle(timestamp, price) ==
    [timestamp |-> timestamp, open |-> price, high |-> price, low |-> price,
     close |-> price]

\* Array.prototype.reverse.
Reverse(seq) == [i \in 1..Len(seq) |-> seq[Len(seq) + 1 - i]]

\* Array.prototype.slice(-n).
SliceLast(seq, n) ==
    IF n >= Len(seq) THEN seq
    ELSE [i \in 1..n |-> seq[Len(seq) - n + i]]

\* reduce((a, b) => a + b, 0).
RECURSIVE SumTo(_, _)
SumTo(seq, k) ==
    IF k = 0 THEN R(0) ELSE RAdd(SumTo(seq, k - 1), seq[k])

Sum(seq) == SumTo(seq, Len(seq))

CalculateSMA(prices, period) ==
    IF Len(prices) < period THEN Null
    ELSE RDiv(Sum(SliceLast(prices, period)), R(period))

\* A variant of calculateRSI that keeps the sign of the losses.
CalculateRSISignedLosses(prices, period) ==
    IF Len(prices) < period + 1 THEN Null
    ELSE LET changes == [i \in 1..(Len(prices) - 1) |->
                            RSub(prices[i + 1], prices[i])]
             gains == [i \in DOMAIN changes |->
                          IF RLess(R(0), changes[i]) THEN changes[i] ELSE R(0)]
             losses == [i \in DOMAIN changes |->
                           IF RLess(changes[i], R(0)) THEN changes[i] ELSE R(0)]
             avgGain == RDiv(Sum(SliceLast(gains, period)), R(period))
             avgLoss == RDiv(Sum(SliceLast(losses, period)), R(period))
         IN  IF avgLoss = R(0) THEN R(100)
             ELSE RSub(R(100), RDiv(R(100), RAdd(R(1), RDiv(avgGain, avgLoss))))

CalculateRSI(prices, period) ==
    IF Len(prices) < period + 1 THEN Null
    ELSE LET changes == [i \in 1..(Len(prices) - 1) |->
                            RSub(prices[i + 1], prices[i])]
             gains == [i \in DOMAIN changes |->
                          IF RLess(R(0), changes[i]) THEN changes[i] ELSE R(0)]
             losses == [i \in DOMAIN changes |->
                           IF RLess(changes[i], R(0))
                           THEN RSub(R(0), changes[i]) ELSE R(0)]
             avgGain == RDiv(Sum(SliceLast(gains, period)), R(period))
             avgLoss == RDiv(Sum(SliceLast(losses, period)), R(period))
             rs == RDiv(avgGain, avgLoss)
         IN  IF avgLoss = R(0) THEN R(100)
             ELSE RSub(R(100), RDiv(R(100), RAdd(R(1), rs)))

\* The closes in the order in which calculateAllIndicators hands them to the
\* indicator functions: the candles' closes, reversed.
PricesOf(data) == Reverse([i \in 1..Len(data) |-> data[i].close])

\* Math.max(...seq) and Math.min(...seq) of a non-empty array.
RECURSIVE MaxTo(_, _)
MaxTo(seq, k) ==
    IF k = 1 THEN seq[1]
    ELSE LET m == MaxTo(seq, k - 1) IN IF RLess(m, seq[k]) THEN seq[k] ELSE m

RECURSIVE MinTo(_, _)
MinTo(seq, k) ==
    IF k = 1 THEN seq[1]
    ELSE LET m == MinTo(seq, k - 1) IN IF RLess(seq[k], m) THEN seq[k] ELSE m

MaxOf(seq) == MaxTo(seq, Len(seq))
MinOf(seq) == MinTo(seq, Len(seq))

\* seq.slice(i - period + 1, i + 1) with the 0-based index i of the code.
Window(seq, i, period) == [j \in 1..period |-> seq[i - period + 1 + j]]

\* calculateStochastic: %K of the window that ends at the 0-based index i.
PercentK(highs, lows, closes, i, period) ==
    LET periodHigh == MaxOf(Window(highs, i, period))
        periodLow == MinOf(Window(lows, i, period))
    IN  RMul(RDiv(RSub(closes[i + 1], periodLow),
                  RSub(periodHigh, periodLow)), R(100))

\* calculateStochastic.  Of kValues only the last three are used, and only
\* those are calculated here.
CalculateStochastic(highs, lows, closes, period) ==
    IF Len(highs) < period THEN Null
    ELSE LET last == Len(highs) - 1
             first == IF last - 2 < period - 1 THEN period - 1 ELSE last - 2
             kValues == [j \in 1..(last - first + 1) |->
                            PercentK(highs, lows, closes, first + j - 1, period)]
         IN  [k |-> PercentK(highs, lows, closes, last, period),
              d |-> RDiv(Sum(kValues), R(3))]

CalculateWilliamsR(highs, lows, closes, period) ==
    IF Len(highs) < period THEN Null
    ELSE LET highestHigh == MaxOf(SliceLast(highs, period))
             lowestLow == MinOf(SliceLast(lows, period))
             currentClose == closes[Len(closes)]
         IN  RMul(RDiv(RSub(highestHigh, currentClose),
                       RSub(highestHigh, lowestLow)), R(-100))

\* calculateSMA(...) || 0.
OrZero(x) == IF TruthyNum(x) THEN x ELSE R(0)

CalculateTrendStrength(prices) ==
    IF Len(prices) < 20 THEN 0
    ELSE LET sma20 == OrZero(CalculateSMA(prices, 20))
             sma50 == OrZero(CalculateSMA(prices, 50))
             currentPrice == prices[Len(prices)]
             recentSlope == RDiv(RSub(currentPrice, prices[Len(prices) - 9]),
                                 R(10))
         IN  (IF RLess(sma20, currentPrice) THEN 25 ELSE 0)
               + (IF RLess(sma50, currentPrice) THEN 25 ELSE 0)
               + (IF RLess(sma50, sma20) THEN 25 ELSE 0)
               + (IF RLess(R(0), recentSlope) THEN 25 ELSE 0)

\* calculateAllIndicators: the moving averages, the RSI, the stochastic
\* oscillator, Williams %R and the trend strength of its result.  A candle
\* of getPriceHistory has its high and its low equal to its close.
CalculateAllIndicators(data) ==
    LET prices == PricesOf(data)
        highs == Reverse([i \in 1..Len(data) |-> data[i].high])
        lows == Reverse([i \in 1..Len(data) |-> data[i].low])
    IN  [sma |-> [n \in SmaPeriods |-> CalculateSMA(prices, n)],
         rsi |-> CalculateRSI(prices, RsiPeriod),
         stochastic |-> CalculateStochastic(highs, lows, prices, RsiPeriod),
         williams |-> CalculateWilliamsR(highs, lows, prices, RsiPeriod),
         trendStrength |-> CalculateTrendStrength(prices)]

\* What the caller of calculateTokenIndicators gets when it throws.
Thrown == [error |-> "Insufficient price data for technical analysis"]

\* The price histories of the model, oldest candle first as getPriceHistory
\* sorts them: a price of a up to some candle and of b after it, or a price
\* that goes up by 2 or down by 1 from each candle to the next, over the 20
\* candles that calculateTokenIndicators asks for.
History(closes) == [i \in 1..Len(closes) |-> Candle(i * HourMs, R(closes[i]))]

StepLengths ==
    UNION {(n - 1)..(n + MaxExtra) : n \in SmaPeriods}

StepHistories ==
    {History([i \in 1..len |-> IF i <= k THEN a ELSE b]) :
        len \in StepLengths, k \in 0..15, a \in {1, 2, 3}, b \in {1, 2, 3}}

RECURSIVE Walk(_, _)
Walk(start, deltas) ==
    IF deltas = <<>> THEN <<start>>
    ELSE <<start>> \o Walk(start + Head(deltas), Tail(deltas))

\* The changes of a walk: the oldest RsiPeriod of them are free, the later
\* ones all the same.
WalkDeltas ==
    {[i \in 1..(MinDataPoints - 1) |-> IF i <= RsiPeriod THEN free[i] ELSE rest] :
        free \in [1..RsiPeriod -> {-1, 2}], rest \in {-1, 2}}

WalkHistories == {History(Walk(20, deltas)) : deltas \in WalkDeltas}

InitIndicators ==
    /\ NoTrading
    /\ priceData \in StepHistories \cup WalkHistories
    /\ indicators = Null

\* calculateTokenIndicators: refuses a history of fewer than 20 candles,
\* otherwise calculates and stores the indicators.
CalculateTokenIndicators ==
    /\ indicators = Null
    /\ indicators' = IF Len(priceData) < MinDataPoints THEN Thrown
                     ELSE CalculateAllIndicators(priceData)
    /\ UNCHANGED <<priceData, clock, users, strategies, orders, execs, positions,
                   trades, ticks, errorLog, lastPoll, book, lastOp, calls,
                   faults>>

NextIndicators == CalculateTokenIndicators

SpecIndicators == InitIndicators /\ [][NextIndicators]_vars

\* The arithmetic mean of the n most recent closes of an oldest-first
\* history.
MeanOfMostRecent(data, n) ==
    RDiv(Sum([i \in 1..n |-> data[Len(data) - n + i].close]), R(n))

\* calculateTokenIndicators has returned the indicators of priceData.
Calculated == indicators # Null /\ indicators # Thrown

\* C19: for an oldest-first candle series of length >= n, the SMA-n that
\* calculateAllIndicators reports (n = 20, 50, 200) is the arithmetic mean of
\* the n most recent closes.
SmaIsMeanOfMostRecentCloses ==
    Calculated =>
        \A n \in SmaPeriods :
            Len(priceData) >= n =>
                indicators.sma[n] = MeanOfMostRecent(priceData, n)

\* Every change of the series is a gain (a loss).
AllGains(prices) ==
    \A i \in 1..(Len(prices) - 1) : RLess(prices[i], prices[i + 1])

AllLosses(prices) ==
    \A i \in 1..(Len(prices) - 1) : RLess(prices[i + 1], prices[i])

NullWhenWindowNotSatisfied ==
    indicators # Null =>
        /\ indicators # Thrown
        /\ \A n \in SmaPeriods :
              Len(priceData) < n => indicators.sma[n] = Null
        /\ Len(priceData) < RsiPeriod + 1 => indicators.rsi = Null
        /\ Len(priceData) < RsiPeriod =>
              indicators.stochastic = Null /\ indicators.williams = Null

(***************************************************************************)
(* The condition check of a due strategy, with what it asked of the price  *)
(* queries (specification SpecConditions).                                 *)
(***************************************************************************)
\* The price queries that checkStrategyConditions runs, in their order, when
\* getCurrentPrice answers currentPrice.
ConditionQueries(strategy, currentPrice) ==
    LET conditions == strategy.config.conditions
        bounded == TruthyStr(conditions.minPrice) \/ TruthyStr(conditions.maxPrice)
        outOfBounds ==
            \/ TruthyStr(conditions.minPrice) /\ currentPrice < conditions.minPrice
            \/ TruthyStr(conditions.maxPrice) /\ currentPrice > conditions.maxPrice
    IN  IF ~conditions.present THEN <<>>
        ELSE (IF bounded THEN <<"getCurrentPrice">> ELSE <<>>)
               \o (IF (bounded /\ outOfBounds) \/ ~conditions.onlyBuyDips THEN <<>>
                   ELSE <<"getPriceChange24h">>)

\* TickCheck, keeping in the tick what the check asked and was answered.
TickCheckObserved(t) ==
    /\ ticks[t].pc = "check"
    /\ \E p \in Prices, c \in Changes :
          LET doc == Current(t).doc
              queries == ConditionQueries(doc, p)
              passed == CheckStrategyConditions(doc, p, c, clock)
              seen == [strategy |-> doc,
                       queries |-> queries,
                       price |-> IF \E i \in 1..Len(queries) :
                                       queries[i] = "getCurrentPrice"
                                 THEN p ELSE Absent,
                       change |-> IF \E i \in 1..Len(queries) :
                                        queries[i] = "getPriceChange24h"
                                  THEN c ELSE Absent,
                       passed |-> passed]
              after == IF passed THEN [ticks[t] EXCEPT !.pc = "place"]
                       ELSE Advanced([ticks[t] EXCEPT !.results.skipped = @ + 1])
          IN  ticks' = [ticks EXCEPT ![t] = [seen |-> seen] @@ after]
    /\ UNCHANGED <<priceData, indicators, clock, users, strategies, orders, execs,
                   positions, trades, errorLog, lastPoll, book, lastOp, calls,
                   faults>>

ExecuteScheduledStrategiesObserved ==
    \E t \in TickIds :
        \/ TickStart(t)
        \/ TickCheckObserved(t)
        \/ TickPlace(t)
        \/ TickRecord(t)
        \/ TickNext(t)
        \/ TickLogError(t)

\* The conditions of the strategies of the model: price bounds at or around
\* the prices the query can answer, the dip condition, a limit.
BoundedConditions ==
    {[present |-> TRUE, minPrice |-> lo, maxPrice |-> hi,
      onlyBuyDips |-> dips, dipThreshold |-> -5] :
        lo \in {Absent, 5, 10}, hi \in {Absent, 10, 20}, dips \in BOOLEAN}

InitConditions ==
    /\ clock = 0
    /\ users = [u \in UserIds |-> User(10, 5)]
    /\ \E conditions \in BoundedConditions \cup {NoConditions},
          limits \in {NoLimits, [NoLimits EXCEPT !.maxExecutions = 1]} :
          strategies = [s \in StrategyIds |->
              IF s = "s1" THEN Strategy("SOL", conditions, limits)
              ELSE Deactivated(Strategy("BONK", NoConditions, NoLimits))]
    /\ orders = <<>>
    /\ execs = <<>>
    /\ positions = <<>>
    /\ trades = <<>>
    /\ ticks = [t \in TickIds |-> IdleTick]
    /\ errorLog = <<>>
    /\ lastPoll = -1
    /\ book = [k \in UserIds \X Tokens |-> NoEntry]
    /\ lastOp = NoOp
    /\ calls = 0
    /\ faults = 0
    /\ NoPriceData

NextConditions ==
    \/ AdvanceClock
    \/ ExecuteScheduledStrategiesObserved

SpecConditions == InitConditions /\ [][NextConditions]_vars

\* What the latest check of tick t asked and was answered, if it has made one.
HasChecked(t) == "seen" \in DOMAIN ticks[t]

Asked(seen, query) == \E i \in 1..Len(seen.queries) : seen.queries[i] = query

OutOfBounds(seen) ==
    LET conditions == seen.strategy.config.conditions
    IN  /\ seen.price # Absent
        /\ \/ conditions.minPrice # Absent /\ seen.price < conditions.minPrice
           \/ conditions.maxPrice # Absent /\ seen.price > conditions.maxPrice

LimitWasReached(seen) ==
    /\ seen.strategy.config.limits.maxExecutions # Absent
    /\ seen.strategy.stats.totalExecutions
          >= seen.strategy.config.limits.maxExecutions

\* C22: a due check of a strategy with conditions evaluates (1) the price
\* bounds, (2) the dip condition, (3) the limits, and the first that fails
\* decides the skip: a price outside [minPrice, maxPrice] skips without the
\* 24h change being asked for; a price equal to minPrice or maxPrice is
\* within bounds, so the check goes on to the dip condition; a change above
\* the threshold skips whatever the limits are; a reached limit skips a check
\* that passed the first two; and a check that skipped failed one of the
\* three.
ConditionsInOrder ==
    \A t \in TickIds :
        HasChecked(t) =>
            LET seen == ticks[t].seen
                conditions == seen.strategy.config.conditions
                dipFails == seen.change # Absent /\ seen.change > conditions.dipThreshold
            IN  /\ OutOfBounds(seen) =>
                      ~seen.passed /\ ~Asked(seen, "getPriceChange24h")
                /\ (conditions.present /\ ~OutOfBounds(seen) /\ conditions.onlyBuyDips) =>
                      Asked(seen, "getPriceChange24h")
                /\ dipFails => ~seen.passed
                /\ (conditions.present /\ LimitWasReached(seen)) => ~seen.passed
                /\ ~seen.passed =>
                      OutOfBounds(seen) \/ dipFails \/ LimitWasReached(seen)

\* A check saw a price equal to minPrice, asked for the 24h change and
\* passed; the order was placed.
PassedAtMinPrice ==
    \E t \in TickIds :
        /\ HasChecked(t)
        /\ ticks[t].seen.price = ticks[t].seen.strategy.config.conditions.minPrice
        /\ ticks[t].seen.price # Absent
        /\ Asked(ticks[t].seen, "getPriceChange24h")
        /\ ticks[t].seen.passed
        /\ Len(orders) > 0

(***************************************************************************)
(* Interval strategies of every unit (specification SpecIntervals).        *)
(***************************************************************************)
\* The values of the model: 3 weeks is the longest interval whose milliseconds
\* the model checker's integers hold.
IntervalValues == {1, 3}
IntervalUnits == {"m", "h", "d", "w"}

\* One active strategy with one of the given frequencies, with or without
\* the dip condition.
InitFrequencies(frequencies) ==
    /\ clock = 0
    /\ users = [u \in UserIds |-> User(10, 5)]
    /\ \E frequency \in frequencies, conditions \in {NoConditions, DipOnly} :
          strategies = [s \in StrategyIds |->
              IF s = "s1"
              THEN [Strategy("SOL", conditions, NoLimits)
                       EXCEPT !.config.frequency = frequency]
              ELSE Deactivated(Strategy("BONK", NoConditions, NoLimits))]
    /\ orders = <<>>
    /\ execs = <<>>
    /\ positions = <<>>
    /\ trades = <<>>
    /\ ticks = [t \in TickIds |-> IdleTick]
    /\ errorLog = <<>>
    /\ lastPoll = -1
    /\ book = [k \in UserIds \X Tokens |-> NoEntry]
    /\ lastOp = NoOp
    /\ calls = 0
    /\ faults = 0
    /\ NoPriceData

InitIntervals ==
    InitFrequencies({[type |-> "interval", value |-> [n |-> n, unit |-> unit]] :
                        n \in IntervalValues, unit \in IntervalUnits})

NextIntervals ==
    \/ AdvanceClock
    \/ ExecuteScheduledStrategies

SpecIntervals == InitIntervals /\ [][NextIntervals]_vars

\* The duration of a unit of time, in milliseconds.
UnitMs(unit) ==
    CASE unit = "m" -> 60000
      [] unit = "h" -> 3600000
      [] unit = "d" -> 86400000
      [] unit = "w" -> 604800000

IntervalMs(strategy) ==
    strategy.config.frequency.value.n * UnitMs(strategy.config.frequency.value.unit)

\* Tick t, in this step, sets the nextExecution of the strategy it has
\* executed.
SetsNextExecution(t) ==
    /\ ticks[t].pc = "next"
    /\ ticks'[t] # ticks[t]
    /\ strategies'[Current(t).id].stats.nextExecution
          # strategies[Current(t).id].stats.nextExecution

\* C23, as stated: the nextExecution set after an execution is one interval
\* after the slot that was executed, so that consecutive scheduled slots are
\* exactly one interval apart.
SlotsOneIntervalApart ==
    [][\A t \in TickIds :
          SetsNextExecution(t) =>
              strategies'[Current(t).id].stats.nextExecution
                  = Current(t).doc.stats.nextExecution + IntervalMs(Current(t).doc)]_vars

\* C23, amended: the nextExecution set after an execution is the time of the
\* tick that ran it plus v times the duration of the unit; it is at least
\* one interval after the slot that the tick found due.
NextExecutionIsRunPlusInterval ==
    [][\A t \in TickIds :
          SetsNextExecution(t) =>
              /\ strategies'[Current(t).id].stats.nextExecution
                    = ticks[t].now + IntervalMs(Current(t).doc)
              /\ strategies'[Current(t).id].stats.nextExecution
                    >= Current(t).doc.stats.nextExecution + IntervalMs(Current(t).doc)]_vars

\* A strategy with an interval of 1 hour was executed by a tick that ran
\* one polling period after its slot: its next slot is 65 minutes after the
\* first.
ExecutedLateWithHourInterval ==
    /\ strategies["s1"].config.frequency.value = [n |-> 1, unit |-> "h"]
    /\ strategies["s1"].stats.totalExecutions = 1
    /\ strategies["s1"].stats.lastExecution = PollPeriod
    /\ strategies["s1"].stats.nextExecution = PollPeriod + 3600000

(***************************************************************************)
(* Cron strategies (specification SpecCron).                               *)
(***************************************************************************)
\* Every 5 minutes, every hour on the hour, every day at midnight, every
\* Monday at midnight.
CronExpressions == {"*/5 * * * *", "0 * * * *", "0 0 * * *", "0 0 * * 1"}

InitCron ==
    InitFrequencies({[type |-> "cron", value |-> e] : e \in CronExpressions})

NextCron ==
    \/ AdvanceClock
    \/ ExecuteScheduledStrategies

SpecCron == InitCron /\ [][NextCron]_vars

\* The first multiple of period, counted from offset, that is later than
\* now.
NextMultiple(period, offset, now) ==
    offset + (((now - offset) \div period) + 1) * period

\* The next fire time after now of the expressions of the model.  Time 0
\* is a Thursday, 0:00 UTC; the first Monday starts 4 days later.
NextFire(cronExpression, now) ==
    CASE cronExpression = "*/5 * * * *" -> NextMultiple(5 * 60 * 1000, 0, now)
      [] cronExpression = "0 * * * *" -> NextMultiple(60 * 60 * 1000, 0, now)
      [] cronExpression = "0 0 * * *" -> NextMultiple(DayMs, 0, now)
      [] cronExpression = "0 0 * * 1" -> NextMultiple(7 * DayMs, 4 * DayMs, now)

\* C24: the nextExecution set after an execution of a cron strategy is the
\* next fire time of its expression after the time of the tick, so that
\* expressions with different schedules get different next executions.
CronNextFireOfExpression ==
    [][\A t \in TickIds :
          (SetsNextExecution(t) /\ Current(t).doc.config.frequency.type = "cron") =>
              strategies'[Current(t).id].stats.nextExecution
                  = NextFire(Current(t).doc.config.frequency.value, ticks[t].now)]_vars

\* The signal summary lists a contribution of the given type and signal.
Listed(sig, type, signal) ==
    \E i \in 1..Len(sig.signals) :
        sig.signals[i].type = type /\ sig.signals[i].signal = signal

\* C25: every indicator whose condition holds contributes and is listed: an
\* RSI below 30 (0 included) is listed as oversold and one above 70 as
\* overbought, with weight 2; a MACD line above (below) its signal line, a
\* price above sma20 above sma50 (below, below) and a price below the lower
\* (above the upper) Bollinger band are listed with weight 1.
EveryIndicatorVotes ==
    (indicators # Null /\ indicators.signals # Null) =>
        LET sig == indicators.signals
            rsi == indicators.rsi
            macd == indicators.macd
            sma20 == indicators.sma.sma20
            sma50 == indicators.sma.sma50
            bb == indicators.bollingerBands
            price == indicators.currentPrice
        IN  /\ (rsi # Null /\ RLess(rsi, R(30))) => Listed(sig, "RSI", "oversold")
            /\ (rsi # Null /\ RLess(R(70), rsi)) => Listed(sig, "RSI", "overbought")
            /\ (macd # Null /\ RLess(macd.signal, macd.macd))
                  => Listed(sig, "MACD", "bullish_crossover")
            /\ (macd # Null /\ RLess(macd.macd, macd.signal))
                  => Listed(sig, "MACD", "bearish_crossover")
            /\ (sma20 # Null /\ sma50 # Null
                  /\ RLess(sma20, price) /\ RLess(sma50, sma20))
                  => Listed(sig, "MA", "uptrend")
            /\ (sma20 # Null /\ sma50 # Null
                  /\ RLess(price, sma20) /\ RLess(sma20, sma50))
                  => Listed(sig, "MA", "downtrend")
            /\ (bb # Null /\ RLess(price, bb.lower)) => Listed(sig, "BB", "oversold")
            /\ (bb # Null /\ RLess(bb.upper, price)) => Listed(sig, "BB", "overbought")

\* A number that is neither NaN nor an infinity.
Defined(x) == x # Null /\ x[2] # 0

\* C26: the stochastic oscillator and Williams %R of a history are defined
\* numbers whenever they are calculated, also when the highest high of the
\* window equals its lowest low.
FlatWindowGivesDefinedValue ==
    (Calculated /\ indicators.stochastic # Null) =>
        /\ Defined(indicators.stochastic.k)
        /\ Defined(indicators.stochastic.d)
        /\ Defined(indicators.williams)

(***************************************************************************)
(* mutations/trading: cancelOrder; orders that their owner places and      *)
(* cancels while executeTrade runs (specification SpecCancel).             *)
(***************************************************************************)
\* cancelOrder by the owner of order o: allowed while the order is pending
\* or submitted.
CancelOrder(o) ==
    /\ orders[o].status \in {"pending", "submitted"}
    /\ orders' = [orders EXCEPT ![o].status = "cancelled"]
    /\ UNCHANGED <<priceData, indicators, clock, users, strategies, execs,
                   positions, trades, ticks, errorLog, lastPoll, book, lastOp,
                   calls, faults>>

CancelSomeOrder == \E o \in 1..Len(orders) : CancelOrder(o)

NextCancel ==
    \/ UserPlaceTrade
    \/ ExecuteTrade
    \/ CancelSomeOrder

SpecCancel == InitLedger /\ [][NextCancel]_vars

\* C27: a cancelled order is never executed: once its status is cancelled,
\* no step makes it executing or completed, and no step that is taken for
\* it changes a position.
CancelledNeverExecuted ==
    [][\A o \in 1..Len(orders) :
          orders[o].status = "cancelled" =>
              /\ orders'[o].status \notin {"executing", "completed"}
              /\ execs'[o] # execs[o] => positions' = positions]_vars

\* The fill of order o was applied to a position: updateOrderStatus stores
\* the execution on the order in the transaction in which
\* handleCompletedOrder updates the position.
FillApplied(o) == orders[o].execution # <<>>

\* C28: an order whose status is failed has not modified any position:
\* whatever step of executeTrade failed, no fill of the order was applied.
FailedOrderLeftNoFill ==
    \A o \in 1..Len(orders) :
        orders[o].status = "failed" => ~FillApplied(o)

\* Tick t, in this step, is done with a strategy for which it has placed an
\* order: it has set the next execution, or its catch block has run.
DoneWithPlacedOrder(t) ==
    /\ ticks[t].pc \in {"next", "logError"}
    /\ ticks[t].orderId # 0
    /\ ticks'[t] # ticks[t]
    /\ ticks'[t].pc # "logError"

\* C29: placing the order, recording the execution and advancing
\* nextExecution are atomic per strategy and tick: when a tick is done with
\* a strategy for which it has placed an order, the strategy has an
\* execution record of that order and a nextExecution later than the time of
\* the tick.
PlaceRecordAdvanceAtomic ==
    [][\A t \in TickIds :
          DoneWithPlacedOrder(t) =>
              LET strategy == strategies'[Current(t).id]
              IN  /\ \E i \in 1..Len(strategy.executions) :
                        strategy.executions[i].orderId = ticks[t].orderId
                  /\ strategy.stats.nextExecution > ticks[t].now]_vars

(***************************************************************************)
(* Strategies with limits, run by the scheduler.                           *)
(***************************************************************************)
\* One active strategy that buys for 2 at a time, limited to one execution
\* or to an investment of 3, with or without a conditions object.
InitLimits ==
    /\ clock = 0
    /\ users = [u \in UserIds |-> User(10, 5)]
    /\ \E conditions \in {NoConditions, DipOnly},
          limits \in {[NoLimits EXCEPT !.maxExecutions = 1],
                      [NoLimits EXCEPT !.maxInvestment = 3]} :
          strategies = [s \in StrategyIds |->
              IF s = "s1"
              THEN Strategy("SOL", conditions, limits)
              ELSE Deactivated(Strategy("BONK", NoConditions, NoLimits))]
    /\ orders = <<>>
    /\ execs = <<>>
    /\ positions = <<>>
    /\ trades = <<>>
    /\ ticks = [t \in TickIds |-> IdleTick]
    /\ errorLog = <<>>
    /\ lastPoll = -1
    /\ book = [k \in UserIds \X Tokens |-> NoEntry]
    /\ lastOp = NoOp
    /\ calls = 0
    /\ faults = 0
    /\ NoPriceData

NextLimits == AdvanceClock \/ ExecuteScheduledStrategies

SpecLimits == InitLimits /\ [][NextLimits]_vars

\* The total amount of the first k orders that were placed for strategy s.
RECURSIVE AmountPlaced(_, _)
AmountPlaced(s, k) ==
    IF k = 0 THEN 0
    ELSE AmountPlaced(s, k - 1)
           + (IF orders[k].strategyId = s THEN orders[k].tokenIn.amount ELSE 0)

\* C30: the orders placed for a strategy are never more than its
\* maxExecutions, and their total amount is never more than its
\* maxInvestment.
OrdersWithinLimits ==
    \A s \in StrategyIds :
        LET limits == strategies[s].config.limits
        IN  /\ limits.maxExecutions # Absent =>
                  Cardinality(OrdersOf(s)) <= limits.maxExecutions
            /\ limits.maxInvestment # Absent =>
                  AmountPlaced(s, Len(orders)) <= limits.maxInvestment

====
